---- MODULE Spec2Model ----
(***************************************************************************)
(* Model of src/app.py: the script analyzer (AdvancedScriptAnalyzer), the  *)
(* script generator (ProfessionalScriptGenerator) and the two POST         *)
(* handlers /api/generate and /api/analyze.                                *)
(*                                                                         *)
(* Representation of Python values                                         *)
(*  - A character is a one-character string.  Arabic letters are written   *)
(*    in Buckwalter transliteration, one ASCII character per Arabic        *)
(*    character, so lengths and the substring relation between words are   *)
(*    those of the source strings.                                         *)
(*  - A str is a run-length text: a sequence of segments [s, n], standing  *)
(*    for the characters s repeated n times.  The character "#" inside a   *)
(*    segment stands, in copy i, for the i-th letter of an alphabet that   *)
(*    no lexicon uses, so the copies of such a segment are distinct words. *)
(*  - A float that the code rounds to one decimal is held as an integer    *)
(*    number of tenths; an unrounded float is held as an exact fraction    *)
(*    <<num, den>>.                                                        *)
(*  - In the strings of the generator "^" is the Arabic comma, "@" the     *)
(*    bullet and "_" the tatweel; "," is the ASCII comma.                  *)
(*  - The Arabic string constants of the analyzer (ratings, priorities,    *)
(*    messages) are replaced by English identifiers, one per constant.     *)
(***************************************************************************)
EXTENDS Integers, Sequences, FiniteSets, TLC

VARIABLES request, response, called, answered

vars == <<request, response, called, answered>>

(***************************************************************************)
(* Characters                                                              *)
(***************************************************************************)
SP == " "
NL == "\n"
DOT == "."
HASH == "#"
Whitespace == {SP, NL}
DigitChars == {"0", "1", "2", "3", "4", "5", "6", "7", "8", "9"}
\* the argument of w.strip('.,!?;:') with the Arabic semicolon written ";"
StripChars == {".", ",", "!", "?", ";", ":"}

(***************************************************************************)
(* Generic helpers on sequences and exact fractions                        *)
(***************************************************************************)
Min(a, b) == IF a <= b THEN a ELSE b
Max(a, b) == IF a >= b THEN a ELSE b

\* sums and concatenations are taken by halves, which keeps the nesting of
\* the evaluation logarithmic in the length
RECURSIVE SumRange(_, _, _)
SumRange(q, lo, hi) ==
    IF lo > hi THEN 0
    ELSE IF lo = hi THEN q[lo]
    ELSE LET mid == (lo + hi) \div 2
         IN  SumRange(q, lo, mid) + SumRange(q, mid + 1, hi)

SumSeq(q) == SumRange(q, 1, Len(q))

RECURSIVE ConcatRange(_, _, _)
ConcatRange(qq, lo, hi) ==
    IF lo > hi THEN <<>>
    ELSE IF lo = hi THEN qq[lo]
    ELSE LET mid == (lo + hi) \div 2
         IN  ConcatRange(qq, lo, mid) \o ConcatRange(qq, mid + 1, hi)

Flatten(qq) == ConcatRange(qq, 1, Len(qq))

Range(q) == {q[i] : i \in 1..Len(q)}

\* number of entries of q satisfying Test: sum(1 for x in q if Test(x))
CountIf(q, Test(_)) == Cardinality({i \in 1..Len(q) : Test(q[i])})

Rat(n, d) == <<n, d>>
RAdd(a, b) == <<a[1] * b[2] + b[1] * a[2], a[2] * b[2]>>
RMul(a, b) == <<a[1] * b[1], a[2] * b[2]>>
RInt(n) == <<n, 1>>

(***************************************************************************)
(* IEEE double arithmetic, needed where round(x, 1) meets an exact decimal *)
(* tie: the double nearest to x then lies on one side of the tie and       *)
(* decides the result.  A double is held in fixed point, as FixedLen bits, *)
(* most significant first, FixedInt of them before the binary point.  The  *)
(* values met are below 2^FixedInt / 10 and either 0 or at least 2^-10, so *)
(* 53 significant bits always fit.                                         *)
(***************************************************************************)
FixedInt == 2 * 8
FixedFrac == 8 * 8
FixedLen == FixedInt + FixedFrac
\* the bits are handled sixteen at a time
Limb == 2 * 8
LimbBase == 256 * 256

RECURSIVE Pow2(_)
Pow2(k) ==
    IF k = 0 THEN 1
    ELSE LET h == Pow2(k \div 2) IN IF k % 2 = 0 THEN h * h ELSE 2 * h * h

BitsOfNat(v, k) == [i \in 1..k |-> (v \div Pow2(k - i)) % 2]

\* the number whose bits are x[from..to]
NatOfBits(x, from, to) == SumSeq([i \in 1..(to - from + 1) |-> x[from + i - 1] * Pow2(to - from + 1 - i)])

\* long division: k more limbs of r/b, and what is left
RECURSIVE DivLimbs(_, _, _, _)
DivLimbs(r, b, k, acc) ==
    IF k = 0 THEN [bits |-> acc, rem |-> r]
    ELSE DivLimbs((r * LimbBase) % b, b, k - 1,
                  acc \o BitsOfNat((r * LimbBase) \div b, Limb))

\* a / b cut to FixedFrac binary places; sticky: something was cut off
FixDiv(a, b) ==
    LET d == DivLimbs(a % b, b, FixedFrac \div Limb, BitsOfNat(a \div b, FixedInt))
    IN  [bits |-> d.bits, sticky |-> d.rem # 0]

\* addition, limb by limb from the least significant one
RECURSIVE FixAddFrom(_, _, _, _, _)
FixAddFrom(x, y, j, carry, acc) ==
    IF j = 0 THEN acc
    ELSE LET from == Limb * (j - 1) + 1
             s == NatOfBits(x, from, Limb * j) + NatOfBits(y, from, Limb * j) + carry
         IN  FixAddFrom(x, y, j - 1, s \div LimbBase, BitsOfNat(s % LimbBase, Limb) \o acc)

FixAdd(x, y) == FixAddFrom(x, y, FixedLen \div Limb, 0, <<>>)

FixShl(x, k) == [i \in 1..FixedLen |-> IF i + k <= FixedLen THEN x[i + k] ELSE 0]

\* n / 2 as a fixed-point number
FixOfHalves(n) ==
    BitsOfNat(n, FixedInt + 1) \o [i \in 1..(FixedFrac - 1) |-> 0]

\* round to nearest double, ties to even: 53 significant bits are kept
RoundToDouble(x, sticky) ==
    IF \A i \in 1..FixedLen : x[i] = 0 THEN x
    ELSE LET p == CHOOSE i \in 1..FixedLen : x[i] = 1 /\ \A j \in 1..(i - 1) : x[j] = 0
             last == p + 52
         IN  IF last >= FixedLen THEN x
             ELSE LET guard == x[last + 1]
                      rest == sticky \/ \E i \in (last + 2)..FixedLen : x[i] = 1
                      kept == [i \in 1..FixedLen |-> IF i <= last THEN x[i] ELSE 0]
                      ulp == [i \in 1..FixedLen |-> IF i = last THEN 1 ELSE 0]
                  IN  IF guard = 1 /\ (rest \/ x[last] = 1) THEN FixAdd(kept, ulp) ELSE kept

\* round(x, 1) of a double x, in tenths: the integer nearest to 10 * x
FixRound1(x) ==
    LET y == FixAdd(FixShl(x, 3), FixShl(x, 1))
        ip == NatOfBits(y, 1, FixedInt)
        half == y[FixedInt + 1]
        rest == \E i \in (FixedInt + 2)..FixedLen : y[i] = 1
    IN  IF half = 0 THEN ip
        ELSE IF rest THEN ip + 1
        ELSE IF ip % 2 = 0 THEN ip ELSE ip + 1

\* the exact fraction x lies halfway between two tenths
IsTie(x) == (20 * x[1]) % x[2] = 0 /\ ((20 * x[1]) \div x[2]) % 2 = 1

\* the tenth nearest to the exact fraction x (not a tie)
Nearest1(x) ==
    LET q == (10 * x[1]) \div x[2]
        r == (10 * x[1]) % x[2]
    IN  IF 2 * r < x[2] THEN q ELSE q + 1

\* round(a / b, 1) in tenths, for the fraction x = <<a, b>>
Round1(x) ==
    IF IsTie(x)
    THEN LET q == FixDiv(x[1], x[2]) IN FixRound1(RoundToDouble(q.bits, q.sticky))
    ELSE Nearest1(x)

(***************************************************************************)
(* str primitives on run-length texts.                                     *)
(* The texts of the model are well formed: every segment body is non-empty *)
(* and ends in whitespace, and newlines occur only in pairs at the end of  *)
(* a body.  Hence no word, digit run or "\n\n" match spans two copies, and *)
(* the per-body results below add up over the copies.                      *)
(***************************************************************************)
Seg(s, n) == [s |-> s, n |-> n]

NoNewlineBefore(s, k) ==
    \A i \in 1..k : s[i] # NL

WellFormedBody(s) ==
    /\ Len(s) > 0
    /\ s[Len(s)] \in Whitespace
    /\ IF s[Len(s)] = NL
       THEN Len(s) >= 2 /\ s[Len(s) - 1] = NL /\ NoNewlineBefore(s, Len(s) - 2)
       ELSE NoNewlineBefore(s, Len(s))

WellFormedText(T) == \A i \in 1..Len(T) : WellFormedBody(T[i].s) /\ T[i].n >= 1

\* len(text)
StrLen(T) == SumSeq([i \in 1..Len(T) |-> T[i].n * Len(T[i].s)])

\* s.split() of one body: its whitespace-separated words
RECURSIVE SplitFrom(_, _, _, _)
SplitFrom(s, i, cur, acc) ==
    IF i > Len(s)
    THEN IF cur = <<>> THEN acc ELSE Append(acc, cur)
    ELSE IF s[i] \in Whitespace
         THEN SplitFrom(s, i + 1, <<>>, IF cur = <<>> THEN acc ELSE Append(acc, cur))
         ELSE SplitFrom(s, i + 1, Append(cur, s[i]), acc)

SplitBody(s) == SplitFrom(s, 1, <<>>, <<>>)

\* a variant of StrSplit that splits at single spaces, text.split(' '), and so
\* keeps the empty string after the last separator, or of an empty text
StrSplitKeepEmpty(T) ==
    Flatten([i \in 1..Len(T) |->
        LET ws == SplitBody(T[i].s)
        IN  [j \in 1..Len(ws) |-> [w |-> ws[j], n |-> T[i].n]]])
    \o <<[w |-> <<>>, n |-> 1]>>

\* text.split(): the words as runs [w, n], in order of first occurrence
StrSplit(T) ==
    Flatten([i \in 1..Len(T) |->
        LET ws == SplitBody(T[i].s)
        IN  [j \in 1..Len(ws) |-> [w |-> ws[j], n |-> T[i].n]]])

\* text.count('\n\n') of one body: non-overlapping matches, left to right
RECURSIVE CountBreaksFrom(_, _)
CountBreaksFrom(s, i) ==
    IF i + 1 > Len(s) THEN 0
    ELSE IF s[i] = NL /\ s[i + 1] = NL THEN 1 + CountBreaksFrom(s, i + 2)
    ELSE CountBreaksFrom(s, i + 1)

\* text.count('\n\n')
StrCountBreaks(T) == SumSeq([i \in 1..Len(T) |-> T[i].n * CountBreaksFrom(T[i].s, 1)])

\* the lengths of the maximal digit runs of one body
RECURSIVE DigitRunsFrom(_, _, _, _)
DigitRunsFrom(s, i, cur, acc) ==
    IF i > Len(s)
    THEN IF cur = 0 THEN acc ELSE Append(acc, cur)
    ELSE IF s[i] \in DigitChars
         THEN DigitRunsFrom(s, i + 1, cur + 1, acc)
         ELSE DigitRunsFrom(s, i + 1, 0, IF cur = 0 THEN acc ELSE Append(acc, cur))

DigitRuns(s) == DigitRunsFrom(s, 1, 0, <<>>)

\* len(re.findall(r'\d+', text))
FindAllDigits(T) == SumSeq([i \in 1..Len(T) |-> T[i].n * Len(DigitRuns(T[i].s))])

\* len(re.findall(r'\d{4}', text)): a run of L digits holds L div 4 matches
FindAllFourDigits(T) ==
    SumSeq([i \in 1..Len(T) |->
        LET runs == DigitRuns(T[i].s)
        IN  T[i].n * SumSeq([j \in 1..Len(runs) |-> runs[j] \div 4])])

\* the text with each segment cut to at most two copies.  Bodies end in
\* whitespace and no lexicon entry holds more than one whitespace character,
\* so an occurrence of a lexicon entry touches at most two adjacent copies.
Flat2(T) ==
    Flatten([i \in 1..Len(T) |-> IF T[i].n = 1 THEN T[i].s ELSE T[i].s \o T[i].s])

Occurs(w, chars) ==
    \E i \in 1..(Len(chars) - Len(w) + 1) : SubSeq(chars, i, i + Len(w) - 1) = w

\* `w in text`
StrContains(T, w) == Occurs(w, Flat2(T))

\* [s.strip() for s in text.split('.') if s.strip()], scanned one character at
\* a time: count = fragments closed so far that hold a non-whitespace
\* character, open = the current fragment holds one
ScanChar(st, c) ==
    IF c = DOT
    THEN [count |-> st.count + (IF st.open THEN 1 ELSE 0), open |-> FALSE]
    ELSE [count |-> st.count, open |-> st.open \/ c \notin Whitespace]

RECURSIVE ScanBody(_, _, _)
ScanBody(st, s, i) ==
    IF i > Len(s) THEN st ELSE ScanBody(ScanChar(st, s[i]), s, i + 1)

\* n copies of a body: after the first copy the state at the end of a copy is
\* the same for every copy, so every further copy closes the same number
ScanSeg(st, seg) ==
    LET s1 == ScanBody(st, seg.s, 1)
        s2 == ScanBody(s1, seg.s, 1)
    IN  IF seg.n = 1 THEN s1
        ELSE [count |-> s1.count + (seg.n - 1) * (s2.count - s1.count), open |-> s2.open]

RECURSIVE ScanText(_, _, _)
ScanText(st, T, i) ==
    IF i > Len(T) THEN st
    ELSE LET next == ScanSeg(st, T[i])
         IN  IF next.count >= 0 THEN ScanText(next, T, i + 1) ELSE next

\* a variant of StrSentenceCount without the filter, len(text.split('.')):
\* one more than the number of full stops
StrSentenceCountUnfiltered(T) ==
    SumSeq([i \in 1..Len(T) |->
              T[i].n * Cardinality({j \in 1..Len(T[i].s) : T[i].s[j] = DOT})]) + 1

\* len([s for s in text.split('.') if s.strip()])
StrSentenceCount(T) ==
    LET st == ScanText([count |-> 0, open |-> FALSE], T, 1)
    IN  st.count + (IF st.open THEN 1 ELSE 0)

(***************************************************************************)
(* Lexicons of the analyzer                                                *)
(***************************************************************************)
\* src/app.py:463-467
journalist_indicators ==
    << <<"y","q","E">>, <<"t","q","E">>, <<"y","u","E","d">>,
       <<"t","u","E","d">>, <<"y","$","y","r">>, <<"t","$","y","r">>,
       <<"w","f","q","A","F">>, <<"H","y","v">>, <<"<","*">>,
       <<"b","y","n","m","A">>, <<"m","n"," ","j","h","p">>, <<"m","n"," ","n","A","H","y","p">>,
       <<"t","A","r","y","x","y","A","F">>, <<"H","A","l","y","A","F">>, <<"m","s","t","q","b","l","A","F">>,
       <<"A","l","m","S","A","d","r">>, <<"A","l","t","q","A","r","y","r">>, <<"A","l","d","r","A","s","A","t">> >>

\* src/app.py:472
personal_pronouns ==
    << <<">","n","A">>, <<"n","H","n">>, <<">","$","E","r">>,
       <<">","r","Y">>, <<">","E","t","q","d">> >>

\* src/app.py:497
formal_words ==
    << <<"y","u","E","d">>, <<"t","u","E","t","b","r">>, <<"y","$","y","r">>,
       <<"w","f","q","A","F">>, <<"H","y","v">>, <<"<","*">> >>

\* src/app.py:498
informal_words ==
    << <<"r","A","}","E">>, <<"j","m","y","l">>, <<"m","*","h","l">>,
       <<"x","y","A","l","y">> >>

\* src/app.py:519-524, in declaration order
keywords_history ==
    << <<"t","A","r","y","x">>, <<"q","d","y","m">>, <<"E","S","r">>,
       <<"H","q","b","p">>, <<"q","r","n">> >>

keywords_culture ==
    << <<"v","q","A","f","p">>, <<"t","r","A","v">>, <<"E","m","A","r","p">>,
       <<"f","n">> >>

keywords_tourism ==
    << <<"s","y","A","H","p">>, <<"z","w","A","r">>, <<"z","y","A","r","p">>,
       <<"j","w","l","p">> >>

keywords_economy ==
    << <<"A","q","t","S","A","d">>, <<"A","s","t","v","m","A","r">>, <<"t","n","m","y","p">>,
       <<"w","Z","A","}","f">> >>

\* src/app.py:532
source_words ==
    << <<"A","l","m","S","A","d","r">>, <<"A","l","m","r","j","E">>, <<"A","l","d","r","A","s","p">>,
       <<"A","l","t","q","r","y","r">> >>

topic_keywords ==
    << [topic |-> "history", keywords |-> keywords_history],
       [topic |-> "culture", keywords |-> keywords_culture],
       [topic |-> "tourism", keywords |-> keywords_tourism],
       [topic |-> "economy", keywords |-> keywords_economy] >>

(***************************************************************************)
(* Conversions between int and str                                         *)
(***************************************************************************)
DigitSeq == <<"0", "1", "2", "3", "4", "5", "6", "7", "8", "9">>

RECURSIVE FormatNat(_)
FormatNat(n) ==
    IF n < 10 THEN <<DigitSeq[n + 1]>>
    ELSE Append(FormatNat(n \div 10), DigitSeq[(n % 10) + 1])

\* str(n)
FormatInt(n) == IF n < 0 THEN <<"-">> \o FormatNat(0 - n) ELSE FormatNat(n)

\* f"{n}%"
FormatPercent(n) == Append(FormatInt(n), "%")

\* s.rstrip('%')
RECURSIVE RStripPercent(_)
RStripPercent(s) ==
    IF s # <<>> /\ s[Len(s)] = "%" THEN RStripPercent(SubSeq(s, 1, Len(s) - 1)) ELSE s

DigitValue(c) == CHOOSE d \in 0..9 : DigitSeq[d + 1] = c

RECURSIVE ParseNat(_)
ParseNat(s) ==
    IF s = <<>> THEN 0 ELSE 10 * ParseNat(SubSeq(s, 1, Len(s) - 1)) + DigitValue(s[Len(s)])

\* int(s)
ParseInt(s) == IF s # <<>> /\ s[1] = "-" THEN 0 - ParseNat(Tail(s)) ELSE ParseNat(s)

(***************************************************************************)
(* AdvancedScriptAnalyzer                                                  *)
(***************************************************************************)
\* __init__: the text, its words (as runs) and the number of its sentences
\* (only the length of self.sentences is ever read)
AdvancedScriptAnalyzer(script_text) ==
    [script_text |-> script_text,
     words |-> StrSplit(script_text),
     sentences_len |-> StrSentenceCount(script_text)]

\* len(self.words)
WordsLen(words) == SumSeq([i \in 1..Len(words) |-> words[i].n])

\* sum(len(w) for w in self.words)
WordsCharSum(words) == SumSeq([i \in 1..Len(words) |-> words[i].n * Len(words[i].w)])

IsPerCopy(w) == \E i \in 1..Len(w) : w[i] = HASH

\* len(set(self.words)): a word without "#" counts once; a word with "#" is a
\* different word in each copy, copies 1..n of equal bodies coinciding
WordsDistinct(words) ==
    LET plain == {words[i].w : i \in {j \in 1..Len(words) : ~IsPerCopy(words[j].w)}}
        perCopy == {words[i].w : i \in {j \in 1..Len(words) : IsPerCopy(words[j].w)}}
        copies(w) == CHOOSE m \in {words[i].n : i \in 1..Len(words)} :
                        /\ \E i \in 1..Len(words) : words[i].w = w /\ words[i].n = m
                        /\ \A i \in 1..Len(words) : words[i].w = w => words[i].n <= m
        RECURSIVE SumCopies(_)
        SumCopies(S) == IF S = {} THEN 0
                        ELSE LET w == CHOOSE x \in S : TRUE
                             IN  copies(w) + SumCopies(S \ {w})
    IN  Cardinality(plain) + SumCopies(perCopy)

_basic_analysis(self) ==
    LET word_count == WordsLen(self.words)
        sentence_count == self.sentences_len
        char_count == StrLen(self.script_text)
        paragraph_count == StrCountBreaks(self.script_text) + 1
        avg_sentence_length ==
            IF sentence_count > 0 THEN Rat(word_count, sentence_count) ELSE RInt(0)
        avg_word_length ==
            IF word_count > 0 THEN Rat(WordsCharSum(self.words), word_count) ELSE RInt(0)
        reading_time == Rat(word_count, 150)
        broadcast_time == Rat(word_count * 10, 25)
    IN  [word_count |-> word_count,
         sentence_count |-> sentence_count,
         char_count |-> char_count,
         paragraph_count |-> paragraph_count,
         avg_sentence_length |-> Round1(avg_sentence_length),
         avg_word_length |-> Round1(avg_word_length),
         reading_time_minutes |-> Round1(reading_time),
         broadcast_time_seconds |-> broadcast_time[1] \div broadcast_time[2]]

\* sum(1 for word in lexicon if word in self.script_text)
LexiconHits(lexicon, text) ==
    LET flat == Flat2(text)
    IN  Cardinality({i \in 1..Len(lexicon) : Occurs(lexicon[i], flat)})

_detect_tone(self) ==
    LET formal_count == LexiconHits(formal_words, self.script_text)
        informal_count == LexiconHits(informal_words, self.script_text)
    IN  IF formal_count > informal_count * 2 THEN "formal"
        ELSE IF informal_count > formal_count THEN "informal"
        ELSE "balanced"

\* a variant of ObjectivityScore that takes 30 off for every pronoun and does
\* not clamp the result
ObjectivityUnclamped(text) == 100 - (LexiconHits(personal_pronouns, text) * 30)

\* lines 473-474
ObjectivityScore(text) ==
    LET objectivity_score == 100 - (LexiconHits(personal_pronouns, text) * 10)
    IN  Max(0, Min(100, objectivity_score))

\* a variant of _style_analysis that asks for more than 5 indicators before
\* it calls the style professional
_style_analysis_strict(self) ==
    LET journalist_score == LexiconHits(journalist_indicators, self.script_text)
        numbers == FindAllDigits(self.script_text)
    IN  [style_type |-> IF journalist_score > 5 THEN "professional_journalistic" ELSE "generic",
         journalist_score |-> journalist_score,
         objectivity |-> FormatPercent(ObjectivityScore(self.script_text)),
         uses_data |-> numbers > 0,
         numbers_count |-> numbers,
         has_dates |-> FindAllFourDigits(self.script_text) > 0,
         well_structured |-> StrCountBreaks(self.script_text) >= 2,
         tone |-> _detect_tone(self)]

\* a variant of _style_analysis that asks for three paragraph breaks before
\* it calls a text structured
_style_analysis_three_breaks(self) ==
    LET journalist_score == LexiconHits(journalist_indicators, self.script_text)
        numbers == FindAllDigits(self.script_text)
    IN  [style_type |-> IF journalist_score >= 5 THEN "professional_journalistic" ELSE "generic",
         journalist_score |-> journalist_score,
         objectivity |-> FormatPercent(ObjectivityScore(self.script_text)),
         uses_data |-> numbers > 0,
         numbers_count |-> numbers,
         has_dates |-> FindAllFourDigits(self.script_text) > 0,
         well_structured |-> StrCountBreaks(self.script_text) >= 3,
         tone |-> _detect_tone(self)]

_style_analysis(self) ==
    LET journalist_score == LexiconHits(journalist_indicators, self.script_text)
        objectivity_score == ObjectivityScore(self.script_text)
        numbers == FindAllDigits(self.script_text)
        has_dates == FindAllFourDigits(self.script_text) > 0
        has_structure == StrCountBreaks(self.script_text) >= 2
    IN  [style_type |-> IF journalist_score >= 5 THEN "professional_journalistic" ELSE "generic",
         journalist_score |-> journalist_score,
         objectivity |-> FormatPercent(objectivity_score),
         uses_data |-> numbers > 0,
         numbers_count |-> numbers,
         has_dates |-> has_dates,
         well_structured |-> has_structure,
         tone |-> _detect_tone(self)]

\* w.strip('.,!?;:'): the listed characters removed from both ends
RECURSIVE Strip(_)
Strip(w) ==
    IF w = <<>> THEN w
    ELSE IF w[1] \in StripChars THEN Strip(Tail(w))
    ELSE IF w[Len(w)] \in StripChars THEN Strip(SubSeq(w, 1, Len(w) - 1))
    ELSE w

\* Counter: entries [key, count] in order of first insertion.  A key is
\* [w, i]: the word, and the copy it belongs to when the word holds "#"
\* (0 otherwise).
CounterAdd(entries, key, c) ==
    IF \E j \in 1..Len(entries) : entries[j].key = key
    THEN [j \in 1..Len(entries) |->
            IF entries[j].key = key
            THEN [key |-> key, count |-> entries[j].count + c]
            ELSE entries[j]]
    ELSE Append(entries, [key |-> key, count |-> c])

RECURSIVE CounterAddCopies(_, _, _, _)
CounterAddCopies(entries, w, k, n) ==
    IF k > n THEN entries
    ELSE CounterAddCopies(CounterAdd(entries, [w |-> w, i |-> k], 1), w, k + 1, n)

\* Counter([w.strip('.,!?;:') for w in words if len(w) > 3])
RECURSIVE CounterOf(_, _, _)
CounterOf(words, i, entries) ==
    IF i > Len(words) THEN entries
    ELSE LET r == words[i]
             base == Strip(r.w)
         IN  IF ~(Len(r.w) > 3) THEN CounterOf(words, i + 1, entries)
             ELSE IF ~IsPerCopy(r.w)
                  THEN CounterOf(words, i + 1, CounterAdd(entries, [w |-> base, i |-> 0], r.n))
             ELSE IF \E j \in 1..Len(entries) : entries[j].key.w = base /\ entries[j].key.i > 0
                  THEN CounterOf(words, i + 1, CounterAddCopies(entries, base, 1, r.n))
             ELSE CounterOf(words, i + 1,
                      entries \o [k \in 1..r.n |-> [key |-> [w |-> base, i |-> k], count |-> 1]])

\* Counter.most_common(k): by descending count, equal counts in insertion order
RECURSIVE MostCommon(_, _)
MostCommon(entries, k) ==
    IF k = 0 \/ entries = <<>> THEN <<>>
    ELSE LET top == CHOOSE j \in 1..Len(entries) :
                        /\ \A m \in 1..Len(entries) : entries[m].count <= entries[j].count
                        /\ \A m \in 1..(j - 1) : entries[m].count < entries[j].count
             rest == [m \in 1..(Len(entries) - 1) |->
                        IF m < top THEN entries[m] ELSE entries[m + 1]]
         IN  <<entries[top]>> \o MostCommon(rest, k - 1)

\* q[:k]
Take(q, k) == SubSeq(q, 1, Min(k, Len(q)))

_content_analysis(self) ==
    LET word_freq == CounterOf(self.words, 1, <<>>)
        most_common == MostCommon(word_freq, 10)
        flat == Flat2(self.script_text)
        covered == {t \in 1..Len(topic_keywords) :
                      \E k \in 1..Len(topic_keywords[t].keywords) :
                          Occurs(topic_keywords[t].keywords[k], flat)}
        RECURSIVE TopicsFrom(_)
        TopicsFrom(t) ==
            IF t > Len(topic_keywords) THEN <<>>
            ELSE (IF t \in covered THEN <<topic_keywords[t].topic>> ELSE <<>>)
                 \o TopicsFrom(t + 1)
        has_quotes == Occurs(<<"\"">>, flat) \/ Occurs(<<"'">>, flat)
        mentions_sources == \E i \in 1..Len(source_words) : Occurs(source_words[i], flat)
        top5 == Take(most_common, 5)
    IN  [most_common_words |->
            [i \in 1..Len(top5) |-> [word |-> top5[i].key, count |-> top5[i].count]],
         topics_covered |-> TopicsFrom(1),
         has_quotes |-> has_quotes,
         mentions_sources |-> mentions_sources,
         diversity_score |->
            IF self.words # <<>>
            THEN Rat(WordsDistinct(self.words), WordsLen(self.words))
            ELSE RInt(0)]

\* the recommendation dicts of lines 549-620, by their issue
Recommendation(issue) ==
    CASE issue = "too_short" ->
            [type |-> "length", priority |-> "high", issue |-> issue,
             suggestion |-> "add_details"]
      [] issue = "too_long" ->
            [type |-> "length", priority |-> "medium", issue |-> issue,
             suggestion |-> "shorten"]
      [] issue = "style_not_journalistic" ->
            [type |-> "style", priority |-> "high", issue |-> issue,
             suggestion |-> "use_journalistic_phrases"]
      [] issue = "personal_opinion" ->
            [type |-> "objectivity", priority |-> "high", issue |-> issue,
             suggestion |-> "stay_neutral"]
      [] issue = "missing_statistics" ->
            [type |-> "data", priority |-> "medium", issue |-> issue,
             suggestion |-> "add_numbers"]
      [] issue = "no_sources" ->
            [type |-> "sources", priority |-> "high", issue |-> issue,
             suggestion |-> "cite_sources"]
      [] issue = "poorly_structured" ->
            [type |-> "structure", priority |-> "medium", issue |-> issue,
             suggestion |-> "split_into_paragraphs"]
      [] issue = "sentences_too_long" ->
            [type |-> "readability", priority |-> "medium", issue |-> issue,
             suggestion |-> "shorten_sentences"]
      [] issue = "no_major_issues" ->
            [type |-> "general", priority |-> "info", issue |-> issue,
             suggestion |-> "keep_going"]

\* a variant of _generate_recommendations that looks at the sources before
\* it looks at the data
_generate_recommendations_sources_first(basic, style, content) ==
    LET r1 == IF basic.word_count < 100 THEN <<Recommendation("too_short")>>
              ELSE IF basic.word_count > 600 THEN <<Recommendation("too_long")>>
              ELSE <<>>
        r2 == IF style.journalist_score < 3
              THEN Append(r1, Recommendation("style_not_journalistic")) ELSE r1
        r3 == IF ParseInt(RStripPercent(style.objectivity)) < 80
              THEN Append(r2, Recommendation("personal_opinion")) ELSE r2
        r4 == IF ~content.mentions_sources
              THEN Append(r3, Recommendation("no_sources")) ELSE r3
        r5 == IF ~style.uses_data
              THEN Append(r4, Recommendation("missing_statistics")) ELSE r4
        r6 == IF basic.paragraph_count < 3
              THEN Append(r5, Recommendation("poorly_structured")) ELSE r5
        r7 == IF basic.avg_sentence_length > 250
              THEN Append(r6, Recommendation("sentences_too_long")) ELSE r6
    IN  IF r7 = <<>> THEN Append(r7, Recommendation("no_major_issues")) ELSE r7

\* a variant of _generate_recommendations without the closing stand-in entry
\* of lines 613-620
_generate_recommendations_no_fallback(basic, style, content) ==
    LET r1 == IF basic.word_count < 100 THEN <<Recommendation("too_short")>>
              ELSE IF basic.word_count > 600 THEN <<Recommendation("too_long")>>
              ELSE <<>>
        r2 == IF style.journalist_score < 3
              THEN Append(r1, Recommendation("style_not_journalistic")) ELSE r1
        r3 == IF ParseInt(RStripPercent(style.objectivity)) < 80
              THEN Append(r2, Recommendation("personal_opinion")) ELSE r2
        r4 == IF ~style.uses_data
              THEN Append(r3, Recommendation("missing_statistics")) ELSE r3
        r5 == IF ~content.mentions_sources
              THEN Append(r4, Recommendation("no_sources")) ELSE r4
        r6 == IF basic.paragraph_count < 3
              THEN Append(r5, Recommendation("poorly_structured")) ELSE r5
    IN  IF basic.avg_sentence_length > 250
        THEN Append(r6, Recommendation("sentences_too_long")) ELSE r6

_generate_recommendations(basic, style, content) ==
    LET r0 == <<>>
        r1 == IF basic.word_count < 100 THEN Append(r0, Recommendation("too_short"))
              ELSE IF basic.word_count > 600 THEN Append(r0, Recommendation("too_long"))
              ELSE r0
        r2 == IF style.journalist_score < 3
              THEN Append(r1, Recommendation("style_not_journalistic")) ELSE r1
        r3 == IF ParseInt(RStripPercent(style.objectivity)) < 80
              THEN Append(r2, Recommendation("personal_opinion")) ELSE r2
        r4 == IF ~style.uses_data
              THEN Append(r3, Recommendation("missing_statistics")) ELSE r3
        r5 == IF ~content.mentions_sources
              THEN Append(r4, Recommendation("no_sources")) ELSE r4
        r6 == IF basic.paragraph_count < 3
              THEN Append(r5, Recommendation("poorly_structured")) ELSE r5
        r7 == IF basic.avg_sentence_length > 250
              THEN Append(r6, Recommendation("sentences_too_long")) ELSE r6
    IN  IF r7 = <<>> THEN Append(r7, Recommendation("no_major_issues")) ELSE r7

max_score == 100

\* the rating of a score given in tenths (lines 668-677)
Rating(score) ==
    IF score >= 900 THEN "excellent"
    ELSE IF score >= 750 THEN "very_good"
    ELSE IF score >= 600 THEN "good"
    ELSE IF score >= 500 THEN "acceptable"
    ELSE "needs_improvement"

\* a variant of ScoreTerms whose 20 point band ends below 500 words
ScoreTerms_strict(basic, style, content) ==
    [length |-> IF 200 <= basic.word_count /\ basic.word_count < 500 THEN RInt(20)
                ELSE IF (150 <= basic.word_count /\ basic.word_count < 200)
                        \/ (500 <= basic.word_count /\ basic.word_count <= 600)
                     THEN RInt(15)
                ELSE RInt(10),
     style |-> RInt(Min(25, style.journalist_score * 3)),
     objectivity |-> RMul(RInt(ParseInt(RStripPercent(style.objectivity))), Rat(15, 100)),
     data |-> RAdd(IF style.uses_data THEN RInt(10) ELSE RInt(0),
                   IF style.has_dates THEN RInt(5) ELSE RInt(0)),
     sources |-> IF content.mentions_sources THEN RInt(10) ELSE RInt(0),
     structure |-> RAdd(IF basic.paragraph_count >= 3 THEN RInt(5) ELSE RInt(0),
                        IF style.well_structured THEN RInt(5) ELSE RInt(0)),
     diversity |-> RMul(content.diversity_score, RInt(5))]

\* a variant of ScoreTerms whose length term is 0 outside the two bands
ScoreTerms_no_floor(basic, style, content) ==
    [length |-> IF 200 <= basic.word_count /\ basic.word_count <= 500 THEN RInt(20)
                ELSE IF (150 <= basic.word_count /\ basic.word_count < 200)
                        \/ (500 < basic.word_count /\ basic.word_count <= 600)
                     THEN RInt(15)
                ELSE RInt(0),
     style |-> RInt(Min(25, style.journalist_score * 3)),
     objectivity |-> RMul(RInt(ParseInt(RStripPercent(style.objectivity))), Rat(15, 100)),
     data |-> RAdd(IF style.uses_data THEN RInt(10) ELSE RInt(0),
                   IF style.has_dates THEN RInt(5) ELSE RInt(0)),
     sources |-> IF content.mentions_sources THEN RInt(10) ELSE RInt(0),
     structure |-> RAdd(IF basic.paragraph_count >= 3 THEN RInt(5) ELSE RInt(0),
                        IF style.well_structured THEN RInt(5) ELSE RInt(0)),
     diversity |-> RMul(content.diversity_score, RInt(5))]

\* the seven additions to score of lines 631-663, as exact fractions
ScoreTerms(basic, style, content) ==
    [length |-> IF 200 <= basic.word_count /\ basic.word_count <= 500 THEN RInt(20)
                ELSE IF (150 <= basic.word_count /\ basic.word_count < 200)
                        \/ (500 < basic.word_count /\ basic.word_count <= 600)
                     THEN RInt(15)
                ELSE RInt(10),
     style |-> RInt(Min(25, style.journalist_score * 3)),
     objectivity |-> RMul(RInt(ParseInt(RStripPercent(style.objectivity))), Rat(15, 100)),
     data |-> RAdd(IF style.uses_data THEN RInt(10) ELSE RInt(0),
                   IF style.has_dates THEN RInt(5) ELSE RInt(0)),
     sources |-> IF content.mentions_sources THEN RInt(10) ELSE RInt(0),
     structure |-> RAdd(IF basic.paragraph_count >= 3 THEN RInt(5) ELSE RInt(0),
                        IF style.well_structured THEN RInt(5) ELSE RInt(0)),
     diversity |-> RMul(content.diversity_score, RInt(5))]

\* round(score + diversity * 5, 1) in tenths (lines 662-665), score being a
\* number of halves, exact as a double, and diversity = u / n
RoundScore(score, diversity) ==
    LET sum == RAdd(score, RMul(diversity, RInt(5)))
    IN  IF IsTie(sum) /\ (2 * score[1]) % score[2] = 0
        THEN LET q == FixDiv(diversity[1], diversity[2])
                 d == RoundToDouble(q.bits, q.sticky)
                 d5 == RoundToDouble(FixAdd(FixShl(d, 2), d), FALSE)
                 s == FixOfHalves((2 * score[1]) \div score[2])
                 total == RoundToDouble(FixAdd(s, d5), FALSE)
             \* every double is worked out before the operation that reads it
             IN  IF Len(d) = FixedLen /\ Len(d5) = FixedLen /\ Len(total) = FixedLen
                 THEN FixRound1(total) ELSE 0
        ELSE IF IsTie(sum) THEN Round1(sum)
        ELSE Nearest1(sum)

_calculate_overall_score(basic, style, content) ==
    LET t == ScoreTerms(basic, style, content)
        score6 == RAdd(RAdd(RAdd(RAdd(RAdd(RAdd(RInt(0), t.length), t.style),
                     t.objectivity), t.data), t.sources), t.structure)
        score == Min(max_score * 10, RoundScore(score6, content.diversity_score))
    IN  [score |-> score, rating |-> Rating(score), max_score |-> max_score]

\* analyze(), without the analyzed_at time stamp
analyze(self) ==
    LET basic_analysis == _basic_analysis(self)
        style_analysis == _style_analysis(self)
        content_analysis == _content_analysis(self)
    IN  [success |-> TRUE,
         analysis |->
            [basic |-> basic_analysis,
             style |-> style_analysis,
             content |-> content_analysis,
             recommendations |->
                _generate_recommendations(basic_analysis, style_analysis, content_analysis),
             overall_score |->
                _calculate_overall_score(basic_analysis, style_analysis, content_analysis)]]

(***************************************************************************)
(* Input texts of /api/analyze.  A text is put together from               *)
(*   k journalist indicators, p personal pronouns, a number or a year,     *)
(*   a source word, b paragraph breaks and filler words up to a total of   *)
(*   W words, every part taken as the user would type it (words separated  *)
(*   by one space, a paragraph ended by a blank line).                     *)
(***************************************************************************)
MaxBreaks == 3

IndicatorChoices == {0, 2, 3, 5, 9}
PronounChoices == {0, 2, 3, 5}
DataChoices == {"none", "number", "year"}
WordTargets == {0, 99, 100, 150, 199, 200, 250, 500, 501, 600, 601}
FillerKinds == {"plain", "sentences", "distinct"}

\* the first k entries of a lexicon, one word (or phrase) per segment
LexiconSegs(lexicon, k) == [i \in 1..k |-> Seg(Append(lexicon[i], SP), 1)]

DataSegs(d) ==
    CASE d = "none" -> <<>>
      [] d = "number" -> <<Seg(<<"7", SP>>, 1)>>
      [] d = "year" -> <<Seg(<<"2", "0", "2", "3", SP>>, 1)>>

SourceSegs(s) == IF s THEN <<Seg(Append(source_words[2], SP), 1)>> ELSE <<>>

\* b paragraphs of one word each
BreakSegs(b) == IF b = 0 THEN <<>> ELSE <<Seg(<<"f", "q", "r", "p", NL, NL>>, b)>>

FillerSegs(kind, f) ==
    IF f = 0 THEN <<>>
    ELSE CASE kind = "plain" -> <<Seg(<<"k", "l", "m", "p", SP>>, f)>>
           [] kind = "sentences" -> <<Seg(<<"k", "l", "m", "p", DOT, SP>>, f)>>
           [] kind = "distinct" -> <<Seg(<<"k", "l", "m", "p", HASH, SP>>, f)>>

MakeText(k, p, d, s, b, kind, W) ==
    LET lead == LexiconSegs(journalist_indicators, k) \o LexiconSegs(personal_pronouns, p)
                \o DataSegs(d) \o SourceSegs(s) \o BreakSegs(b)
        f == Max(0, W - WordsLen(StrSplit(lead)))
    IN  lead \o FillerSegs(kind, f)

TextFamily ==
    {MakeText(k, p, d, s, b, kind, W) :
        k \in IndicatorChoices, p \in PronounChoices, d \in DataChoices,
        s \in BOOLEAN, b \in 0..MaxBreaks, kind \in FillerKinds, W \in WordTargets}

(***************************************************************************)
(* Strings of the generator.  A str built by the generator is a sequence   *)
(* of pieces, its value being their concatenation; a piece is a literal of *)
(* a template or the value of a field of the dataset and is never empty.   *)
(***************************************************************************)
\* a str value as pieces
Str(x) == IF x = "" THEN <<>> ELSE <<x>>

\* sep.join(parts)
RECURSIVE Join(_, _)
Join(sep, parts) ==
    IF parts = <<>> THEN <<>>
    ELSE IF Len(parts) = 1 THEN parts[1]
    ELSE parts[1] \o sep \o Join(sep, Tail(parts))

\* d.get(k, default)
Get(d, k, default) == IF k \in DOMAIN d THEN d[k] ELSE default

\* {}
EmptyDict == [k \in {} |-> ""]

\* the words of the keys of the dataset, as str.title() writes them
Capitalized(w) ==
    CASE w = "annual" -> "Annual"
      [] w = "visitors" -> "Visitors"
      [] w = "tombs" -> "Tombs"
      [] w = "tomb" -> "Tomb"
      [] w = "facades" -> "Facades"
      [] w = "inscriptions" -> "Inscriptions"
      [] w = "wells" -> "Wells"
      [] w = "water" -> "Water"
      [] w = "channels" -> "Channels"
      [] w = "height" -> "Height"
      [] w = "meters" -> "Meters"
      [] w = "2023" -> "2023"

\* key.replace('_', ' ').title(), key given as the sequence of its words
TitleKey(key) == Join(<<" ">>, [i \in 1..Len(key) |-> <<Capitalized(key[i])>>])

\* random.choice(seq): the values it can return
random_choice(seq) == {seq[i] : i \in 1..Len(seq)}

\* random.sample(population, k): the lists it can return
random_sample(population, k) ==
    {[i \in 1..k |-> population[p[i]]] :
        p \in {q \in [1..k -> 1..Len(population)] :
                  \A i, j \in 1..k : i # j => q[i] # q[j]}}

\* int(x / y) for ints x and y > 0: the quotient truncated towards zero
IntDiv(x, y) == IF x >= 0 THEN x \div y ELSE 0 - ((0 - x) \div y)

(***************************************************************************)
(* The reference dataset (data/cities_landmarks.json) that                 *)
(* load_cities_data reads.  A dict is a record; a dict whose keys the code *)
(* iterates over is the sequence of its [key, value] items, a key being    *)
(* the sequence of its words ("annual_visitors_2023" is                    *)
(* <<"annual", "visitors", "2023">>).                                      *)
(*   hegra     every optional field filled in, a UNESCO site               *)
(*   oldtown   the required fields only                                    *)
(*   masmak    every list filled in: one story, one key landmark, one      *)
(*             statistic, six angles                                       *)
(*   diriyah   empty stories and statistics, two key landmarks             *)
(*   ruins     a record without its category                               *)
(***************************************************************************)
hegra ==
    [name |-> "AlHjr", type |-> "mwqE >vry", category |-> "trAv EAlmy",
     description |-> "mdynp nbTyp qdymp",
     detailed_info |-> "yDm mqAbr mnHwtp fy AlSxr",
     historical_significance |-> "EASmp AlAnbAT Aljnwbyp",
     architectural_features |->
        <<[key |-> <<"tomb", "facades">>, value |-> "wAjhAt mnHwtp"],
          [key |-> <<"inscriptions">>, value |-> "nqw$ nbTyp"],
          [key |-> <<"wells">>, value |-> "|bAr mHfwrp"],
          [key |-> <<"water", "channels">>, value |-> "qnwAt myAh"]>>,
     archaeological_importance |-> ">kbr mwqE nbTy jnwb AlbtrA'",
     info |-> [unesco |-> TRUE, year_inscribed |-> "2008",
               unesco_criteria |-> "AlmEyAr AlvAny",
               best_time |-> "Al$tA'", entry_fee |-> "95 ryAl"],
     statistics |->
        <<[key |-> <<"annual", "visitors", "2023">>, value |-> "250000"],
          [key |-> <<"tombs">>, value |-> "111"]>>,
     stories |->
        <<[title |-> "rHlp dwty", content |-> "zAr AlrHAlp AlmwqE.",
           year |-> "1876", type |-> "rHlp",
           sources |-> <<"dwty", "jwsn", "sAfynyAk", "AlAnSAry">>],
          [title |-> "AlqSr Alfryd", content |-> "qbr lm yktml nHth."]>>,
     key_landmarks |->
        <<[name |-> "AlqSr Alfryd", description |-> "qbr mnfrd",
           year |-> "50", significance |-> ">kbr AlwAjhAt"],
          [name |-> "AldywAn", description |-> "qAEp mnHwtp"],
          [name |-> "jbl <vlb", description |-> "mmr Dyq",
           significance |-> "mwqE dyny"]>>,
     journalist_angles |->
        <<"AlsyAHp AlmstdAmp", "Alnqw$ AlnbTyp", "AltrAv AlEAlmy", "Almjtmt AlmHly">>]

oldtown ==
    [name |-> "Albldp Alqdymp", type |-> "qryp trAvyp", category |-> "trAv EmrAny",
     description |-> "Hy skny qdym", detailed_info |-> "bywt Tynyp mtlASqp"]

masmak ==
    [name |-> "qSr AlmSmk", type |-> "HSn tAryxy", category |-> "mElm wTny",
     description |-> "qlEp Tynyp", detailed_info |-> "$hd AstEAdp AlryAD",
     info |-> [unesco |-> FALSE, age |-> "1865", duration |-> "sAEp",
               guided_tours |-> "mtwfrp"],
     statistics |-> <<[key |-> <<"height", "meters">>, value |-> "18"]>>,
     stories |-> <<[title |-> "ftH AlryAD", content |-> "dxl Almlk AlHSn."]>>,
     key_landmarks |-> <<[name |-> "AlbwAbp", description |-> "bwAbp x$byp",
                          year |-> "1865"]>>,
     journalist_angles |->
        <<"AlEmArp Alnjdyp", "twHyd Almmlkp", "AlmtHf Alywm", "AlbwAbp Alx$byp",
          "Alswq AlmjAwr", "Altrmym">>]

diriyah ==
    [name |-> "AldrEyp", type |-> "Hy tAryxy", category |-> "trAv EAlmy",
     description |-> "EASmp Aldwlp Al>wlY", detailed_info |-> "qSwr Tynyp",
     historical_development |-> "rmmt AlqSwr wftHt llzwAr",
     info |-> [entry_fee |-> "mjAnA"],
     statistics |-> <<>>,
     stories |-> <<>>,
     key_landmarks |->
        <<[name |-> "Hy AlTryf", description |-> "mqr AlHkm"],
          [name |-> "qSr slwY", description |-> ">kbr AlqSwr",
           significance |-> "mqr Al>}mp"]>>,
     journalist_angles |-> <<"AlEmArp AlTynyp", "m$rwE AltTwyr", "AlHrf Altqlydyp">>]

ruins ==
    [name |-> ">TlAl", type |-> "mwqE >vry",
     description |-> "mdynp nbTyp qdymp", detailed_info |-> "bywt Tynyp mtlASqp"]

\* load_cities_data(): the parsed file
load_cities_data ==
    [cities |->
        [alula |-> [name |-> "AlElA", region |-> "mnTqp Almdynp Almnwrp",
                    landmarks |-> [hegra |-> hegra, oldtown |-> oldtown]],
         riyadh |-> [name |-> "AlryAD", region |-> "mnTqp AlryAD",
                     landmarks |-> [masmak |-> masmak, diriyah |-> diriyah,
                                    ruins |-> ruins]]]]

(***************************************************************************)
(* ProfessionalScriptGenerator.  A method that calls random returns the    *)
(* set of the values it can return.                                        *)
(***************************************************************************)
\* the outcome of a call: a value, or an exception with its str()
Return(v) == [raised |-> FALSE, value |-> v]
Raise(exc, msg) == [raised |-> TRUE, exc |-> exc, msg |-> msg]

\* str(KeyError(key))
KeyErrorMsg(key) == <<"'", key, "'">>

\* __init__, given the JSON values of the request
ProfessionalScriptGenerator(city, landmark, duration_seconds) ==
    LET data == load_cities_data
    IN  IF duration_seconds.kind # "int"
        THEN Raise("TypeError", <<"can't multiply sequence by non-int of type 'float'">>)
        ELSE IF city.text \notin DOMAIN data.cities
        THEN Raise("KeyError", KeyErrorMsg(city.text))
        ELSE IF landmark.text \notin DOMAIN data.cities[city.text].landmarks
        THEN Raise("KeyError", KeyErrorMsg(landmark.text))
        ELSE Return([city |-> city.text,
                     landmark |-> landmark.text,
                     duration_seconds |-> duration_seconds.num,
                     target_words |-> IntDiv(duration_seconds.num * 5, 2),
                     city_data |-> data.cities[city.text],
                     landmark_data |-> data.cities[city.text].landmarks[landmark.text]])

\* the titles of the sections
TITLE == <<"AlEnwAn">>
INTRO == <<"Almqdmp">>
HISTORICAL == <<"Alxlfyp AltAryxyp">>
DESCRIPTION == <<"AlwSf AltfSyly">>
SIGNIFICANCE == <<"Al>hmyp wAltfrd">>
STORY == "qSp: "
KEY_LANDMARKS == <<"AlmEAlm AlbArzp">>
STATISTICS == <<">rqAm w<HSA}yAt">>
ANGLES == <<"zwAyA SHfyp mqtrHp">>
VISIT_INFO == <<"mElwmAt AlzyArp">>
CONCLUSION == <<"AlxAtmp">>

\* the outcomes <<title, intro>>
_generate_intro(self) ==
    LET L == self.landmark_data
        C == self.city_data
        detailed_info == Str(Get(L, "detailed_info", ""))
        title_templates ==
            <<Str(L.name) \o <<": ">> \o Str(L.category),
              Str(L.name) \o <<" fy ">> \o Str(C.name) \o <<" - ">> \o Str(L.description),
              <<"tqryr: ">> \o Str(L.name) \o <<" - ">> \o Str(L.type)>>
        intro_templates ==
            <<<<"fy ">> \o Str(C.name) \o <<"^ ">> \o Str(C.region) \o <<"^ yqE ">>
                  \o Str(L.name) \o <<"^ ">> \o Str(L.description) \o <<". ">> \o detailed_info,
              <<"yuEd ">> \o Str(L.name) \o <<" >Hd >brz AlmEAlm fy ">> \o Str(C.name)
                  \o <<"^ Hyv ">> \o Str(L.description) \o <<". ">> \o detailed_info,
              Str(L.name) \o <<" - ">> \o Str(L.category) \o <<" - mElm AstvnA}y fy ">>
                  \o Str(C.name) \o <<" ">> \o Str(L.description) \o <<". ">> \o detailed_info>>
        info == Get(L, "info", EmptyDict)
        year == Get(info, "year_inscribed", "gyr mHdd")
        unesco_criteria == Get(info, "unesco_criteria", "")
        unesco_name == Get(info, "inscription_name", L.name)
        unesco ==
            IF Get(info, "unesco", FALSE)
            THEN <<" AlmwqE mudrj fy qA}mp AltrAv AlEAlmy llywnskw mn* EAm ">> \o Str(year)
                 \o <<"m tHt Asm '">> \o Str(unesco_name) \o <<"'">>
                 \o (IF unesco_criteria # "" THEN <<" wfqAF l_", unesco_criteria>> ELSE <<>>)
                 \o <<".">>
            ELSE <<>>
    IN  {<<title, intro \o unesco>> :
            title \in random_choice(title_templates), intro \in random_choice(intro_templates)}

\* the keys that _generate_intro subscripts, in the order it reads them
IntroKeys ==
    <<<<"landmark_data", "name">>, <<"landmark_data", "category">>,
      <<"city_data", "name">>, <<"landmark_data", "description">>,
      <<"landmark_data", "type">>, <<"city_data", "region">>>>

_generate_historical_context(self) ==
    LET L == self.landmark_data
        historical == Get(L, "historical_significance", "")
        age == Get(Get(L, "info", EmptyDict), "age", "")
    IN  IF historical = ""
        THEN IF age # ""
             THEN <<"yEwd tAryx ">> \o Str(L.name) \o <<" <lY ", age,
                    "^ mmA yjElh $AhdAF ElY Hqb tAryxyp mtEddp.">>
             ELSE <<>>
        ELSE <<historical>>

\* the parts of _generate_detailed_description before its fallback
DescriptionParts(self) ==
    LET L == self.landmark_data
        arch_features == Get(L, "architectural_features", <<>>)
        shown == Take(arch_features, 3)
        arch_importance == Get(L, "archaeological_importance", "")
        development == Get(L, "historical_development", "")
    IN  (IF Len(arch_features) > 0
         THEN <<<<"mn AlnAHyp AlmEmAryp:">>>>
              \o [i \in 1..Len(shown) |->
                    <<"- ">> \o TitleKey(shown[i].key) \o <<": ">> \o Str(shown[i].value)]
         ELSE <<>>)
        \o (IF arch_importance # "" THEN <<<<arch_importance>>>> ELSE <<>>)
        \o (IF development # "" THEN <<<<development>>>> ELSE <<>>)

_generate_detailed_description(self) ==
    LET parts == DescriptionParts(self)
    IN  Join(<<"\n\n">>,
             IF parts = <<>> THEN <<Str(self.landmark_data.detailed_info)>> ELSE parts)

\* stats.get('annual_visitors_2023')
AnnualVisitors(stats) ==
    LET hits == SelectSeq(stats, LAMBDA item : item.key = <<"annual", "visitors", "2023">>)
    IN  IF hits = <<>> THEN "" ELSE hits[1].value

_generate_significance(self) ==
    LET L == self.landmark_data
        hist_sig == Get(L, "historical_significance", "")
        visitors == AnnualVisitors(Get(L, "statistics", <<>>))
        significance_parts ==
            (IF hist_sig # "" THEN <<<<"tAryxyAF: ", hist_sig>>>> ELSE <<>>)
            \o (IF Get(Get(L, "info", EmptyDict), "unesco", FALSE)
                THEN <<<<"vqAfyAF: ymvl ">> \o Str(L.name)
                        \o <<" qymp EAlmyp AstvnA}yp^ kmA >qrth mnZmp Alywnskw.">>>>
                ELSE <<>>)
            \o (IF visitors # ""
                THEN <<<<"AqtSAdyAF: Astqbl AlmwqE ", visitors,
                         " zA}r fy 2023^ mmA yjElh mHrkAF AqtSAdyAF mhmAF.">>>>
                ELSE <<>>)
    IN  Join(<<"\n\n">>, significance_parts)

_format_story(story) ==
    LET year == Get(story, "year", "")
        story_sources == Get(story, "sources", <<>>)
        shown == Take(story_sources, 3)
        type == Get(story, "type", "")
    IN  (IF year # "" THEN <<"[", year, "]", "\n\n">> ELSE <<>>)
        \o Str(story.content)
        \o (IF Len(story_sources) > 0
            THEN <<"\n\n", "AlmSAdr: ">>
                 \o Join(<<", ">>, [i \in 1..Len(shown) |-> Str(shown[i])])
            ELSE <<>>)
        \o (IF type # "" THEN <<"\n\n", "AlnwE: ", type>> ELSE <<>>)

\* one line of _generate_key_landmarks
KeyLandmarkLine(lm) ==
    <<"@ ">> \o Str(lm.name)
    \o (IF Get(lm, "year", "") # "" THEN <<" (", lm.year, ")">> ELSE <<>>)
    \o <<": ">> \o Str(lm.description)
    \o (IF Get(lm, "significance", "") # ""
        THEN <<" Al>hmyp: ", lm.significance>> ELSE <<>>)

\* a variant of _generate_key_landmarks without the floor of two: it selects
\* min(len(key_landmarks), int(duration / 60)) landmarks
_generate_key_landmarks_no_floor(self) ==
    LET key_landmarks == Get(self.landmark_data, "key_landmarks", <<>>)
        num == Min(Len(key_landmarks), IntDiv(self.duration_seconds, 60))
    IN  IF Len(key_landmarks) = 0 THEN {<<>>}
        ELSE {Join(<<"\n\n">>, [i \in 1..num |-> KeyLandmarkLine(selected[i])]) :
                 selected \in random_sample(key_landmarks, num)}

\* the outcomes of _generate_key_landmarks
_generate_key_landmarks(self) ==
    LET key_landmarks == Get(self.landmark_data, "key_landmarks", <<>>)
        num == Min(Len(key_landmarks), Max(2, IntDiv(self.duration_seconds, 60)))
    IN  IF Len(key_landmarks) = 0 THEN {<<>>}
        ELSE {Join(<<"\n\n">>, [i \in 1..num |-> KeyLandmarkLine(selected[i])]) :
                 selected \in random_sample(key_landmarks, num)}

_generate_statistics(self) ==
    LET stats == Get(self.landmark_data, "statistics", <<>>)
    IN  IF Len(stats) = 0 THEN <<>>
        ELSE Join(<<"\n">>,
                  <<<<"Al>rqAm ttHdv:">>>>
                  \o [i \in 1..Len(stats) |->
                        <<"@ ">> \o TitleKey(stats[i].key) \o <<": ">> \o Str(stats[i].value)])

\* a variant of _suggest_journalist_angles that lists every angle
_suggest_all_angles(self) ==
    LET angles == Get(self.landmark_data, "journalist_angles", <<>>)
        num == Len(angles)
    IN  IF Len(angles) = 0 THEN {<<>>}
        ELSE {Join(<<"\n">>,
                   <<<<"zwAyA SHfyp mqtrHp lltgTyp:">>>>
                   \o [i \in 1..num |-> FormatInt(i) \o <<". ">> \o Str(selected[i])]) :
                 selected \in random_sample(angles, num)}

\* the outcomes of _suggest_journalist_angles
_suggest_journalist_angles(self) ==
    LET angles == Get(self.landmark_data, "journalist_angles", <<>>)
        num == Min(Len(angles), 5)
    IN  IF Len(angles) = 0 THEN {<<>>}
        ELSE {Join(<<"\n">>,
                   <<<<"zwAyA SHfyp mqtrHp lltgTyp:">>>>
                   \o [i \in 1..num |-> FormatInt(i) \o <<". ">> \o Str(selected[i])]) :
                 selected \in random_sample(angles, num)}

_generate_visit_info(self) ==
    LET info == Get(self.landmark_data, "info", EmptyDict)
        Line(label, key) ==
            IF Get(info, key, "") # "" THEN <<<<label, info[key]>>>> ELSE <<>>
    IN  Join(<<"\n">>,
             <<<<"mElwmAt Emlyp llzyArp:">>>>
             \o Line("@ >fDl wqt: ", "best_time")
             \o Line("@ Almdp AlmqtrHp: ", "duration")
             \o Line("@ rswm Aldxwl: ", "entry_fee")
             \o Line("@ AljwlAt AlmSHwbp: ", "guided_tours"))

\* the outcomes of _generate_conclusion
_generate_conclusion(self) ==
    LET name == Str(self.landmark_data.name)
        conclusions ==
            <<<<"yZl ">> \o name
                \o <<" $AhdAF ElY EZmp AltAryx wAlHDArp^ wmElmAF ystHq AlzyArp wAldrAsp AlmEmqp.">>,
              <<"byn AlmADy wAlHADr^ yqf ">> \o name \o <<" kjsr yrbT Al>jyAl^ wyrwy qSp ">>
                \o Str(self.city_data.name) \o <<" AlEryqp.">>,
              <<"ywASl ">> \o name
                \o <<" j*b AlbAHvyn wAlzwAr mn mxtlf >nHA' AlEAlm^ m&kdAF mkAnth k>Hd >hm AlmEAlm fy Almmlkp.">>,
              <<"fy ESr AltHwl wAltTwyr^ yHAfZ ">> \o name
                \o <<" ElY hwyth AltAryxyp^ mqdmAF llEAlm nmw*jAF frydAF llHfAZ ElY AltrAv.">>>>
    IN  random_choice(conclusions)

_build_full_script(sections) ==
    Join(<<"\n\n">>,
         LET kept == SelectSeq(sections, LAMBDA s : s[1] # TITLE)
         IN  [i \in 1..Len(kept) |-> kept[i][2]])

\* the keys that generate() subscripts and the records lack, in the order
\* in which it reads them
MissingKeys(self) ==
    SelectSeq(IntroKeys, LAMBDA a : a[2] \notin DOMAIN self[a[1]])
    \o (IF DescriptionParts(self) = <<>> /\ "detailed_info" \notin DOMAIN self.landmark_data
        THEN <<<<"landmark_data", "detailed_info">>>> ELSE <<>>)

\* a variant of historical_step that asks for more than 90 seconds
historical_step_strict(self) ==
    IF self.duration_seconds > 90
    THEN <<<<HISTORICAL, _generate_historical_context(self)>>>>
    ELSE <<>>

\* The steps of generate(): the sections that each can append.
historical_step(self) ==
    IF self.duration_seconds >= 90
    THEN <<<<HISTORICAL, _generate_historical_context(self)>>>>
    ELSE <<>>

description_step(self) == <<<<DESCRIPTION, _generate_detailed_description(self)>>>>

\* a variant of significance_step for short scripts only: the section is left
\* out from 180 seconds on
significance_step_short(self) ==
    IF self.duration_seconds >= 60 /\ self.duration_seconds < 180
    THEN <<<<SIGNIFICANCE, _generate_significance(self)>>>>
    ELSE <<>>

significance_step(self) ==
    IF self.duration_seconds >= 60
    THEN <<<<SIGNIFICANCE, _generate_significance(self)>>>>
    ELSE <<>>

story_step(self) ==
    LET stories == Get(self.landmark_data, "stories", <<>>)
    IN  IF self.duration_seconds >= 120 /\ Len(stories) > 0
        THEN {<<<<<<STORY>> \o Str(story.title), _format_story(story)>>>> :
                 story \in random_choice(stories)}
        ELSE {<<>>}

key_landmarks_step(self) ==
    IF self.duration_seconds >= 90
    THEN {IF key_landmarks # <<>> THEN <<<<KEY_LANDMARKS, key_landmarks>>>> ELSE <<>> :
             key_landmarks \in _generate_key_landmarks(self)}
    ELSE {<<>>}

statistics_step(self) ==
    LET stats == _generate_statistics(self)
    IN  IF self.duration_seconds >= 150 /\ stats # <<>>
        THEN <<<<STATISTICS, stats>>>>
        ELSE <<>>

angles_step(self) ==
    IF self.duration_seconds >= 180
    THEN {IF angles # <<>> THEN <<<<ANGLES, angles>>>> ELSE <<>> :
             angles \in _suggest_journalist_angles(self)}
    ELSE {<<>>}

visit_info_step(self) ==
    IF self.duration_seconds >= 60
    THEN <<<<VISIT_INFO, _generate_visit_info(self)>>>>
    ELSE <<>>

\* the dict that generate() returns for the sections it has put together,
\* without the measures of the full text (word_count, char_count,
\* estimated_reading_time, analysis) and without the generated_at time stamp
ScriptResult(self, title, script_sections) ==
    LET L == self.landmark_data
    IN  [success |-> TRUE,
         script |->
            [title |-> title,
             full_text |-> _build_full_script(script_sections),
             sections |-> [i \in 1..Len(script_sections) |->
                             [title |-> script_sections[i][1],
                              content |-> script_sections[i][2]]],
             city |-> self.city_data.name,
             city_region |-> Get(self.city_data, "region", ""),
             landmark |-> L.name,
             landmark_type |-> L.type,
             landmark_category |-> Get(L, "category", ""),
             duration_seconds |-> self.duration_seconds,
             generated_with |-> "Professional Journalist Generator",
             field_questions |-> Get(L, "field_questions", <<>>),
             cultural_notes |-> Get(L, "cultural_notes", <<>>),
             stories |-> Get(L, "stories", <<>>),
             journalist_angles |-> Get(L, "journalist_angles", <<>>),
             statistics |-> Get(L, "statistics", <<>>),
             references |-> Get(L, "references", <<>>),
             key_landmarks |-> Get(L, "key_landmarks", <<>>)]]

\* the outcomes of generate()
generate(self) ==
    LET missing == MissingKeys(self)
    IN  IF missing # <<>>
        THEN {Raise("KeyError", KeyErrorMsg(missing[1][2]))}
        ELSE {Return(ScriptResult(self, intro[1],
                        <<<<TITLE, intro[1]>>, <<INTRO, intro[2]>>>>
                        \o historical_step(self) \o description_step(self)
                        \o significance_step(self) \o story \o key_landmarks
                        \o statistics_step(self) \o angles \o visit_info_step(self)
                        \o <<<<CONCLUSION, conclusion>>>>)) :
                 intro \in _generate_intro(self),
                 story \in story_step(self),
                 key_landmarks \in key_landmarks_step(self),
                 angles \in angles_step(self),
                 conclusion \in _generate_conclusion(self)}

(***************************************************************************)
(* The measures that generate() takes of the full text.  The str is read   *)
(* character by character and becomes a text of the kind the analyzer is   *)
(* given: every segment a few words, each with the whitespace after it,    *)
(* taken once.                                                             *)
(***************************************************************************)
\* the characters of a piece, and of a str
PieceChars(p) == [i \in 1..Len(p) |-> SubSeq(p, i, i)]
StrChars(x) == Flatten([i \in 1..Len(x) |-> PieceChars(x[i])])

\* An atom is a word with the whitespace that follows it; the first atom of
\* a text may be whitespace alone.  Two runs of atoms that lie side by side
\* are joined: the atoms at the seam are one atom unless a word begins there.
JoinAtoms(A, B) ==
    IF A = <<>> THEN B
    ELSE IF B = <<>> THEN A
    ELSE LET a == A[Len(A)]
             b == B[1]
         IN  IF a[Len(a)] \in Whitespace /\ b[1] \notin Whitespace
             THEN A \o B
             ELSE SubSeq(A, 1, Len(A) - 1) \o <<a \o b>> \o Tail(B)

RECURSIVE Atoms(_, _, _)
Atoms(chars, lo, hi) ==
    IF lo > hi THEN <<>>
    ELSE IF lo = hi THEN <<<<chars[lo]>>>>
    ELSE LET mid == (lo + hi) \div 2
         IN  JoinAtoms(Atoms(chars, lo, mid), Atoms(chars, mid + 1, hi))

\* atoms to a segment
AtomsPerSeg == 2

\* the str x as a text
TextOf(x) ==
    LET chars == StrChars(x)
        atoms == Atoms(chars, 1, Len(chars))
        n == (Len(atoms) + AtomsPerSeg - 1) \div AtomsPerSeg
    IN  [j \in 1..n |->
            Seg(ConcatRange(atoms, AtomsPerSeg * (j - 1) + 1,
                            Min(AtomsPerSeg * j, Len(atoms))), 1)]

\* Counter.update: the keys of A keep their places, the new keys of B follow
MergeCounters(A, B) ==
    [j \in 1..Len(A) |->
        [key |-> A[j].key,
         count |-> A[j].count
                   + SumSeq([m \in 1..Len(B) |->
                               IF B[m].key = A[j].key THEN B[m].count ELSE 0])]]
    \o SelectSeq(B, LAMBDA e : \A j \in 1..Len(A) : A[j].key # e.key)

\* Counter([w.strip('.,!?;:') for w in words if len(w) > 3]), words lo..hi
RECURSIVE WordFreq(_, _, _)
WordFreq(words, lo, hi) ==
    IF lo > hi THEN <<>>
    ELSE IF lo = hi
    THEN IF Len(words[lo].w) > 3
         THEN <<[key |-> Strip(words[lo].w), count |-> words[lo].n]>> ELSE <<>>
    ELSE LET mid == (lo + hi) \div 2
         IN  MergeCounters(WordFreq(words, lo, mid), WordFreq(words, mid + 1, hi))

\* _analyze_script(script); most_common_words is a list of pairs
_analyze_script(script) ==
    LET text == TextOf(script)
        words == StrSplit(text)
        word_count == WordsLen(words)
        sentence_count == StrSentenceCount(text)
        avg_sentence_length ==
            IF sentence_count > 0 THEN Rat(word_count, sentence_count) ELSE RInt(0)
        word_freq == WordFreq(words, 1, Len(words))
        most_common == MostCommon(word_freq, 10)
        top5 == Take(most_common, 5)
        readability ==
            IF avg_sentence_length[1] < 15 * avg_sentence_length[2] THEN "easy"
            ELSE IF avg_sentence_length[1] < 25 * avg_sentence_length[2] THEN "medium"
            ELSE "advanced"
    IN  [word_count |-> word_count,
         sentence_count |-> sentence_count,
         avg_sentence_length |-> Round1(avg_sentence_length),
         readability |-> readability,
         most_common_words |-> [i \in 1..Len(top5) |-> <<top5[i].key, top5[i].count>>],
         paragraph_count |-> StrCountBreaks(text) + 1]

\* the dict of generate() with the measures of the full text (lines 107,
\* 121-123 and 138), which ScriptResult leaves out
Measured(result) ==
    LET full_script == result.script.full_text
        analysis == _analyze_script(full_script)
        text == TextOf(full_script)
        word_count == WordsLen(StrSplit(text))
    IN  [success |-> result.success,
         script |->
            result.script
            @@ [word_count |-> word_count,
                char_count |-> StrLen(text),
                estimated_reading_time |-> <<ToString(IntDiv(word_count, 150)), " dqyqp">>,
                analysis |-> analysis]]

\* the outcomes of generate(), measures included
generate_measured(self) ==
    {IF r.raised THEN r ELSE Return(Measured(r.value)) : r \in generate(self)}

(***************************************************************************)
(* JSON values, request bodies and responses.  A JSON object is the        *)
(* sequence of its [key, value] members.                                   *)
(***************************************************************************)
JsonStr(T) == [kind |-> "str", text |-> T]
JsonInt(n) == [kind |-> "int", num |-> n]
JsonNull == [kind |-> "null", text |-> <<>>]

Member(k, v) == [key |-> k, value |-> v]

\* k in data
Has(data, k) == \E i \in 1..Len(data) : data[i].key = k

\* data[k]
Item(data, k) == data[CHOOSE i \in 1..Len(data) : data[i].key = k].value

NoRequest == [route |-> "none"]
NoResponse == [status |-> 0]

\* a variant of NewAnalyzer that keeps one analyzer for all requests and
\* gives it the text of a request after answering: a request is analyzed
\* with the text of the analyze request before it
NewAnalyzer_shared(script) ==
    LET earlier == SelectSeq(answered, LAMBDA e : e.request.route = "/api/analyze")
    IN  IF script.kind # "str"
        THEN Raise("AttributeError", <<"'NoneType' object has no attribute 'split'">>)
        ELSE IF earlier # <<>>
        THEN Return(AdvancedScriptAnalyzer(
                        Item(earlier[Len(earlier)].request.json, "script").text))
        ELSE Return(AdvancedScriptAnalyzer(script.text))

\* AdvancedScriptAnalyzer(script): __init__ calls script_text.split(), which
\* a value that is no str does not have
NewAnalyzer(script) ==
    IF script.kind # "str"
    THEN Raise("AttributeError", <<"'NoneType' object has no attribute 'split'">>)
    ELSE Return(AdvancedScriptAnalyzer(script.text))

\* texts whose tokens carry punctuation: a three letter word before a full
\* stop, a token of nothing but commas, a three letter word after a colon
PunctuationTexts ==
    {<<Seg(<<"k", "l", "m", DOT, SP>>, 3), Seg(<<"w", "x", "y", "z", SP>>, 1)>>,
     <<Seg(<<",", ",", ",", ",", SP>>, 1), Seg(<<"w", "x", "y", "z", SP>>, 2)>>,
     <<Seg(<<":", "k", "l", "m", SP>>, 2), Seg(<<"w", "x", "y", "z", "!", SP>>, 1)>>}

AnalyzeBodies ==
    {<<Member("script", JsonStr(T))>> : T \in TextFamily \cup PunctuationTexts}
    \cup {<<Member("script", JsonNull)>>, <<Member("text", JsonNull)>>, <<>>}

CityIds == {"alula", "riyadh", "atlantis"}
LandmarkIds == {"hegra", "oldtown", "masmak", "diriyah", "ruins", "nowhere"}
Durations == {30, 59, 60, 89, 90, 119, 120, 149, 150, 179, 180, 200}
DurationValues == {JsonInt(d) : d \in Durations} \cup {JsonStr("200")}

GenerateBody(city, landmark, duration) ==
    <<Member("city", JsonStr(city)), Member("landmark", JsonStr(landmark)),
      Member("duration", duration)>>

\* complete bodies, and bodies that lack some of the fields
GenerateBodies ==
    {GenerateBody(c, l, d) : c \in CityIds, l \in LandmarkIds, d \in DurationValues}
    \cup {SelectSeq(GenerateBody(c, "hegra", JsonInt(200)), LAMBDA m : m.key \in K) :
             c \in {"alula", "atlantis"},
             K \in (SUBSET {"city", "landmark", "duration"}) \ {{"city", "landmark", "duration"}}}

(***************************************************************************)
(* The state machine: a client posts a request, the handler answers it,    *)
(* the client takes the answer.  called lists the constructor and the      *)
(* method that the handler has called for the request.  answered is the    *)
(* record of earlier requests with what was answered, oldest first; it is  *)
(* kept by the specifications that compare the answers of several requests *)
(* and stays empty under Spec.                                             *)
(***************************************************************************)
Init ==
    /\ request = NoRequest
    /\ response = NoResponse
    /\ called = <<>>
    /\ answered = <<>>

PostGenerate ==
    /\ request.route = "none"
    /\ \E body \in GenerateBodies :
          request' = [route |-> "/api/generate", json |-> body]
    /\ UNCHANGED <<response, called, answered>>

PostAnalyze ==
    /\ request.route = "none"
    /\ \E body \in AnalyzeBodies :
          request' = [route |-> "/api/analyze", json |-> body]
    /\ UNCHANGED <<response, called, answered>>

\* a variant of required_fields that leaves the duration unchecked
required_fields_short == <<"city", "landmark">>

required_fields == <<"city", "landmark", "duration">>

Error(status, error) == [status |-> status, json |-> [success |-> FALSE, error |-> error]]

\* the constructor call of generate_script: its arguments are read first
NewGenerator(data) ==
    LET absent == SelectSeq(<<"city", "landmark", "duration">>, LAMBDA k : ~Has(data, k))
    IN  IF absent # <<>> THEN Raise("KeyError", KeyErrorMsg(absent[1]))
        ELSE ProfessionalScriptGenerator(Item(data, "city"), Item(data, "landmark"),
                                         Item(data, "duration"))

\* POST /api/generate
generate_script ==
    /\ request.route = "/api/generate"
    /\ response.status = 0
    /\ LET data == request.json
           missing == SelectSeq(required_fields, LAMBDA field : ~Has(data, field))
           generator == NewGenerator(data)
       IN  IF missing # <<>>
           THEN /\ response' = Error(400, <<"Missing required field: ", missing[1]>>)
                /\ called' = called
           ELSE IF generator.raised
           THEN /\ response' = Error(500, generator.msg)
                /\ called' = <<"ProfessionalScriptGenerator">>
           ELSE /\ \E result \in generate(generator.value) :
                      response' = IF result.raised THEN Error(500, result.msg)
                                  ELSE [status |-> 200, json |-> result.value]
                /\ called' = <<"ProfessionalScriptGenerator", "generate">>
    /\ UNCHANGED <<request, answered>>

\* POST /api/analyze
analyze_script ==
    /\ request.route = "/api/analyze"
    /\ response.status = 0
    /\ LET data == request.json
           analyzer == NewAnalyzer(Item(data, "script"))
       IN  IF ~Has(data, "script")
           THEN /\ response' = Error(400, <<"Missing script text">>)
                /\ called' = called
           ELSE IF analyzer.raised
           THEN /\ response' = Error(500, analyzer.msg)
                /\ called' = <<"AdvancedScriptAnalyzer">>
           ELSE /\ response' = [status |-> 200, json |-> analyze(analyzer.value)]
                /\ called' = <<"AdvancedScriptAnalyzer", "analyze">>
    /\ UNCHANGED <<request, answered>>

Receive ==
    /\ response.status # 0
    /\ request' = NoRequest
    /\ response' = NoResponse
    /\ called' = <<>>
    /\ UNCHANGED answered

Next ==
    \/ PostGenerate
    \/ PostAnalyze
    \/ generate_script
    \/ analyze_script
    \/ Receive

Spec == Init /\ [][Next]_vars

(***************************************************************************)
(* Two scripts of one landmark: a client asks for a script, keeps the      *)
(* section titles of the answer, and asks for a script of the same         *)
(* landmark that is at least as long.                                      *)
(***************************************************************************)
DurationLandmarks == {<<"alula", "hegra">>, <<"alula", "oldtown">>, <<"riyadh", "diriyah">>}

PostFirst ==
    /\ request.route = "none"
    /\ answered = <<>>
    /\ \E cl \in DurationLandmarks, d \in Durations :
          request' = [route |-> "/api/generate",
                      json |-> GenerateBody(cl[1], cl[2], JsonInt(d))]
    /\ UNCHANGED <<response, called, answered>>

PostLonger ==
    /\ request.route = "none"
    /\ answered # <<>>
    /\ LET first == answered[1].request.json
       IN  \E d \in Durations :
              /\ d >= Item(first, "duration").num
              /\ request' = [route |-> "/api/generate",
                             json |-> GenerateBody(Item(first, "city").text,
                                                   Item(first, "landmark").text,
                                                   JsonInt(d))]
    /\ UNCHANGED <<response, called, answered>>

\* the client takes the answer; of the first script it keeps the titles of
\* the sections, after the second it starts afresh
ReceiveTitles ==
    /\ response.status # 0
    /\ request' = NoRequest
    /\ response' = NoResponse
    /\ called' = <<>>
    /\ answered' =
          IF answered = <<>> /\ response.status = 200
          THEN <<[request |-> request,
                  titles |-> [i \in 1..Len(response.json.script.sections) |->
                                 response.json.script.sections[i].title]]>>
          ELSE <<>>

NextDurations ==
    \/ PostFirst
    \/ PostLonger
    \/ generate_script
    \/ ReceiveTitles

SpecDurations == Init /\ [][NextDurations]_vars

(***************************************************************************)
(* Repeated analysis: clients post analyze requests for a few texts, any   *)
(* text any number of times, with generate requests in between; the first  *)
(* MaxLog requests are recorded with what was answered.                    *)
(***************************************************************************)
MaxLog == 2

RepeatTexts ==
    PunctuationTexts
    \cup {MakeText(3, 0, "year", TRUE, 2, "plain", 100),
          MakeText(0, 2, "none", FALSE, 0, "distinct", 99)}

BetweenBodies ==
    {GenerateBody("alula", "oldtown", JsonInt(d)) : d \in {30, 90}}
    \cup {GenerateBody("atlantis", "hegra", JsonInt(30))}

PostAnalyzeAgain ==
    /\ request.route = "none"
    /\ \E T \in RepeatTexts :
          request' = [route |-> "/api/analyze", json |-> <<Member("script", JsonStr(T))>>]
    /\ UNCHANGED <<response, called, answered>>

PostGenerateBetween ==
    /\ request.route = "none"
    /\ \E body \in BetweenBodies :
          request' = [route |-> "/api/generate", json |-> body]
    /\ UNCHANGED <<response, called, answered>>

\* the client takes the answer; the request is recorded, an analyze request
\* with the analysis it was answered with
ReceiveAndRecord ==
    /\ response.status # 0
    /\ request' = NoRequest
    /\ response' = NoResponse
    /\ called' = <<>>
    /\ answered' =
          IF Len(answered) >= MaxLog THEN answered
          ELSE IF request.route = "/api/analyze" /\ response.status = 200
          THEN Append(answered, [request |-> request, analysis |-> response.json.analysis])
          ELSE Append(answered, [request |-> request, status |-> response.status])

NextRepeat ==
    \/ PostAnalyzeAgain
    \/ PostGenerateBetween
    \/ analyze_script
    \/ generate_script
    \/ ReceiveAndRecord

SpecRepeat == Init /\ [][NextRepeat]_vars

(***************************************************************************)
(* Short scripts with their measures: the handler of POST /api/generate    *)
(* with everything that generate() puts in the dict.  The full text is     *)
(* read character by character, so the requests are for short scripts.     *)
(***************************************************************************)
SummaryDurations == {30, 45, 59, 60, 61}

SummaryBodies ==
    {GenerateBody(c, l, JsonInt(d)) : c \in CityIds, l \in LandmarkIds, d \in SummaryDurations}

PostGenerateShort ==
    /\ request.route = "none"
    /\ \E body \in SummaryBodies :
          request' = [route |-> "/api/generate", json |-> body]
    /\ UNCHANGED <<response, called, answered>>

\* POST /api/generate, measures included
generate_script_measured ==
    /\ request.route = "/api/generate"
    /\ response.status = 0
    /\ LET data == request.json
           missing == SelectSeq(required_fields, LAMBDA field : ~Has(data, field))
           generator == NewGenerator(data)
       IN  IF missing # <<>>
           THEN /\ response' = Error(400, <<"Missing required field: ", missing[1]>>)
                /\ called' = called
           ELSE IF generator.raised
           THEN /\ response' = Error(500, generator.msg)
                /\ called' = <<"ProfessionalScriptGenerator">>
           ELSE /\ \E result \in generate_measured(generator.value) :
                      response' = IF result.raised THEN Error(500, result.msg)
                                  ELSE [status |-> 200, json |-> result.value]
                /\ called' = <<"ProfessionalScriptGenerator", "generate">>
    /\ UNCHANGED <<request, answered>>

NextSummary ==
    \/ PostGenerateShort
    \/ generate_script_measured
    \/ Receive

SpecSummary == Init /\ [][NextSummary]_vars

(***************************************************************************)
(* Observations on the request that has been answered                      *)
(***************************************************************************)
GenerateAnswered == request.route = "/api/generate" /\ response.status # 0
AnalyzeAnswered == request.route = "/api/analyze" /\ response.status # 0
Generated == request.route = "/api/generate" /\ response.status = 200
Analyzed == request.route = "/api/analyze" /\ response.status = 200

\* the landmark record and the duration that a generate request names
ReqCity == Item(request.json, "city").text
ReqLandmarkId == Item(request.json, "landmark").text
ReqLandmark == load_cities_data.cities[ReqCity].landmarks[ReqLandmarkId]
ReqDuration == Item(request.json, "duration").num

\* the text that an analyze request carries
ReqScript == Item(request.json, "script").text

\* the section types in their fixed order; a story section is known by the
\* prefix of its title
SectionTitles ==
    <<TITLE, INTRO, HISTORICAL, DESCRIPTION, SIGNIFICANCE, <<STORY>>,
      KEY_LANDMARKS, STATISTICS, ANGLES, VISIT_INFO, CONCLUSION>>

KindOf(title) ==
    IF title # <<>> /\ title[1] = STORY THEN 6
    ELSE IF \E i \in 1..Len(SectionTitles) : SectionTitles[i] = title
         THEN CHOOSE i \in 1..Len(SectionTitles) : SectionTitles[i] = title
    ELSE 0

Sections == response.json.script.sections
Kinds == [i \in 1..Len(Sections) |-> KindOf(Sections[i].title)]

NonEmptyList(R, k) == k \in DOMAIN R /\ Len(R[k]) > 0

\* the section types that a script of duration d on the record R is to hold
ExpectedKinds(R, d) ==
    {1, 2, 4, 11}
    \cup (IF d >= 90 THEN {3} ELSE {})
    \cup (IF d >= 60 THEN {5, 10} ELSE {})
    \cup (IF d >= 120 /\ NonEmptyList(R, "stories") THEN {6} ELSE {})
    \cup (IF d >= 90 /\ NonEmptyList(R, "key_landmarks") THEN {7} ELSE {})
    \cup (IF d >= 150 /\ NonEmptyList(R, "statistics") THEN {8} ELSE {})
    \cup (IF d >= 180 /\ NonEmptyList(R, "journalist_angles") THEN {9} ELSE {})

\* C1: the sections of every generated script are in the fixed order title,
\* intro, historical context, detailed description, significance, story, key
\* landmarks, statistics, journalist angles, visit info, conclusion, each
\* type at most once, and the types present are exactly those that the
\* duration and the landmark's lists call for; below 60 seconds they are
\* title, intro, detailed description and conclusion only.
C1_SectionOrderAndGating ==
    Generated =>
        /\ \A i \in 1..Len(Kinds) : Kinds[i] \in 1..11
        /\ \A i, j \in 1..Len(Kinds) : i < j => Kinds[i] < Kinds[j]
        /\ Range(Kinds) = ExpectedKinds(ReqLandmark, ReqDuration)
        /\ ReqDuration < 60 => Range(Kinds) = {1, 2, 4, 11}

\* a 120 second script on a landmark with key landmarks and no stories: the
\* story section is left out although the duration allows it
C1_Witness ==
    /\ Generated
    /\ ReqLandmarkId = "diriyah"
    /\ ReqDuration = 120
    /\ Range(Kinds) = {1, 2, 3, 4, 5, 7, 10, 11}

AllPopulated(R) ==
    /\ NonEmptyList(R, "stories")
    /\ NonEmptyList(R, "key_landmarks")
    /\ NonEmptyList(R, "statistics")
    /\ NonEmptyList(R, "journalist_angles")

\* the numbered items of a section's content
ListedItems(content) == Cardinality({i \in 1..Len(content) : content[i] = ". "})

RuleIndex(issue) ==
    CASE issue = "too_short" -> 1
      [] issue = "too_long" -> 2
      [] issue = "style_not_journalistic" -> 3
      [] issue = "personal_opinion" -> 4
      [] issue = "missing_statistics" -> 5
      [] issue = "no_sources" -> 6
      [] issue = "poorly_structured" -> 7
      [] issue = "sentences_too_long" -> 8
      [] issue = "no_major_issues" -> 0

Recommendations == response.json.analysis.recommendations
RuleIndices == [i \in 1..Len(Recommendations) |-> RuleIndex(Recommendations[i].issue)]
FiredRules == Range(RuleIndices) \ {0}

\* C3: the recommendations of every analysis are in rule declaration order:
\* either the list is the single stand-in entry, or every entry comes from
\* one of the rules 1..8 and the rule numbers are strictly increasing, so
\* that no rule contributes twice.
C3_RecommendationOrder ==
    Analyzed =>
        \/ RuleIndices = <<0>>
        \/ /\ \A i \in 1..Len(RuleIndices) : RuleIndices[i] \in 1..8
           /\ \A i, j \in 1..Len(RuleIndices) : i < j => RuleIndices[i] < RuleIndices[j]

\* a text on which seven rules fire, the last of them rule 8
C3_Witness ==
    /\ Analyzed
    /\ RuleIndices = <<2, 3, 4, 5, 6, 7, 8>>

Objectivity == ParseInt(RStripPercent(response.json.analysis.style.objectivity))
Score == response.json.analysis.overall_score.score

\* C4: in every analysis the objectivity percentage lies in 0..100 and the
\* overall score lies in 0..100 (0..1000 tenths).
C4_Ranges ==
    Analyzed =>
        /\ 0 <= Objectivity /\ Objectivity <= 100
        /\ 0 <= Score /\ Score <= 1000

\* every personal pronoun of the lexicon is found
C4_Witness ==
    /\ Analyzed
    /\ LexiconHits(personal_pronouns, ReqScript) = Len(personal_pronouns)
    /\ Objectivity = 50
    /\ Score > 0

\* the error kind that the status of a response stands for
ErrorKind(resp) ==
    CASE resp.status = 400 -> "ValidationError"
      [] resp.status = 404 -> "NotFound"
      [] resp.status = 500 -> "InternalError"
      [] OTHER -> "none"

CompleteBody ==
    /\ Has(request.json, "city")
    /\ Has(request.json, "landmark")
    /\ Has(request.json, "duration")

\* the request names a city that the dataset lacks, or a landmark that the
\* city lacks
UnknownId ==
    /\ CompleteBody
    /\ \/ ReqCity \notin DOMAIN load_cities_data.cities
       \/ ReqLandmarkId \notin DOMAIN load_cities_data.cities[ReqCity].landmarks

NoPartialOutput == DOMAIN response.json = {"success", "error"}

\* C5: a generate request with an unknown city id or landmark id fails with
\* the NotFound error kind, not with the kind of an internal error, and its
\* response carries no partial output.
C5_UnknownIdIsNotFound ==
    (GenerateAnswered /\ UnknownId) =>
        /\ ErrorKind(response) = "NotFound"
        /\ NoPartialOutput

\* C6: a generate request that lacks city, landmark or duration is answered
\* with status 400 and a message that names a field the request lacks, an
\* analyze request that lacks script with status 400 and the message
\* "Missing script text"; in both cases no generator or analyzer has been
\* constructed and the response holds nothing but success = FALSE and the
\* error.
C6_MissingFieldIsValidationError ==
    /\ (GenerateAnswered /\ ~CompleteBody) =>
          /\ response.status = 400
          /\ NoPartialOutput
          /\ response.json.success = FALSE
          /\ Len(response.json.error) = 2
          /\ response.json.error[1] = "Missing required field: "
          /\ response.json.error[2] \in {"city", "landmark", "duration"}
          /\ ~Has(request.json, response.json.error[2])
          /\ called = <<>>
    /\ (AnalyzeAnswered /\ ~Has(request.json, "script")) =>
          /\ response.status = 400
          /\ NoPartialOutput
          /\ response.json.success = FALSE
          /\ response.json.error = <<"Missing script text">>
          /\ called = <<>>

\* a request with a city and neither landmark nor duration: the first of
\* the fields it lacks is named
C6_Witness ==
    /\ GenerateAnswered
    /\ Has(request.json, "city")
    /\ ~Has(request.json, "landmark")
    /\ ~Has(request.json, "duration")
    /\ response.status = 400
    /\ response.json.error[2] = "landmark"

EmptyAnalyzed == Analyzed /\ ReqScript = <<>>

Basic == response.json.analysis.basic

\* C7 as the specification states it: the empty text has no words and no
\* sentences, is rated "needs improvement", and the rules that fire are
\* exactly 1, 5, 6 and 7.
C7_EmptyTextRules ==
    EmptyAnalyzed =>
        /\ Basic.word_count = 0
        /\ Basic.sentence_count = 0
        /\ response.json.analysis.overall_score.rating = "needs_improvement"
        /\ FiredRules = {1, 5, 6, 7}

\* C7, amended: the empty text has no words and no sentences, is rated
\* "needs improvement", and the rules that fire are exactly 1, 3, 5, 6 and 7:
\* its journalist score 0 is below 3, so the style rule fires too; rule 8
\* does not fire.
C7_EmptyTextRulesAmended ==
    EmptyAnalyzed =>
        /\ Basic.word_count = 0
        /\ Basic.sentence_count = 0
        /\ response.json.analysis.overall_score.rating = "needs_improvement"
        /\ FiredRules = {1, 3, 5, 6, 7}

C7_Witness ==
    /\ EmptyAnalyzed
    /\ Len(Recommendations) = 5
    /\ response.json.analysis.style.journalist_score = 0

\* C8 as the specification states it: every basic metric of the empty text
\* is zero.
C8_EmptyTextAllZero ==
    EmptyAnalyzed =>
        /\ Basic.word_count = 0
        /\ Basic.sentence_count = 0
        /\ Basic.char_count = 0
        /\ Basic.paragraph_count = 0
        /\ Basic.avg_sentence_length = 0
        /\ Basic.avg_word_length = 0
        /\ Basic.reading_time_minutes = 0
        /\ Basic.broadcast_time_seconds = 0

\* C8, amended: every text is analyzed without an error, and the basic
\* metrics of the empty text are zero except paragraph_count, which is 1
\* (no separator, plus one).
C8_EmptyTextMetricsAmended ==
    /\ (AnalyzeAnswered /\ Has(request.json, "script")
           /\ Item(request.json, "script").kind = "str") => response.status = 200
    /\ EmptyAnalyzed =>
          /\ Basic.word_count = 0
          /\ Basic.sentence_count = 0
          /\ Basic.char_count = 0
          /\ Basic.paragraph_count = 1
          /\ Basic.avg_sentence_length = 0
          /\ Basic.avg_word_length = 0
          /\ Basic.reading_time_minutes = 0
          /\ Basic.broadcast_time_seconds = 0

C8_Witness ==
    /\ EmptyAnalyzed
    /\ Basic.char_count = 0
    /\ Basic.paragraph_count = 1

\* the seven terms of the score as the specification gives them, from the
\* metrics of an analysis
SpecScoreSum(a) ==
    LET wc == a.basic.word_count
        length == IF 200 <= wc /\ wc <= 500 THEN 20
                  ELSE IF (150 <= wc /\ wc < 200) \/ (500 < wc /\ wc <= 600) THEN 15
                  ELSE 10
        style == Min(25, 3 * a.style.journalist_score)
        data == (IF a.style.uses_data THEN 10 ELSE 0) + (IF a.style.has_dates THEN 5 ELSE 0)
        sources == IF a.content.mentions_sources THEN 10 ELSE 0
        structure == (IF a.basic.paragraph_count >= 3 THEN 5 ELSE 0)
                     + (IF a.style.well_structured THEN 5 ELSE 0)
        objectivity == Rat(15 * ParseInt(RStripPercent(a.style.objectivity)), 100)
        diversity == Rat(5 * a.content.diversity_score[1], a.content.diversity_score[2])
    IN  RAdd(RAdd(RInt(length + style + data + sources + structure), objectivity), diversity)

\* r tenths is x rounded to one decimal: no number of tenths is nearer to x
IsRounded1(x, r) ==
    /\ 2 * (10 * x[1] - r * x[2]) <= x[2]
    /\ 2 * (r * x[2] - 10 * x[1]) <= x[2]

\* C9: the overall score of every analysis is min(100, the sum of the seven
\* terms rounded to one decimal).
C9_ScoreFormula ==
    Analyzed =>
        \E r \in 0..1001 :
            /\ IsRounded1(SpecScoreSum(response.json.analysis), r)
            /\ Score = Min(1000, r)

\* a text of 500 words, the upper end of the 20 point band, on which every
\* term counts
C9_Witness ==
    /\ Analyzed
    /\ Basic.word_count = 500
    /\ response.json.analysis.style.journalist_score = 9
    /\ response.json.analysis.style.has_dates
    /\ response.json.analysis.content.mentions_sources
    /\ Basic.paragraph_count >= 3
    /\ Objectivity = 80
    /\ Score > 900

\* the text of the scenario: 250 words, 4 paragraphs, 5 or more journalist
\* indicators, one 4-digit year, a source mention, no personal pronoun
Scenario250 ==
    /\ Analyzed
    /\ Basic.word_count = 250
    /\ Basic.paragraph_count = 4
    /\ response.json.analysis.style.journalist_score >= 5
    /\ response.json.analysis.style.has_dates
    /\ response.json.analysis.style.numbers_count = 1
    /\ response.json.analysis.content.mentions_sources
    /\ LexiconHits(personal_pronouns, ReqScript) = 0

AnalysisTerms ==
    ScoreTerms(response.json.analysis.basic, response.json.analysis.style,
               response.json.analysis.content)

GoodOrBetter == {"good", "very_good", "excellent"}

\* C10 as the specification states it: on the text of the scenario the
\* objectivity is 100%, the style type is professional journalistic, the
\* length, style, data and sources terms are 20, 25, 15 and 10, and the
\* rating is "good" or better.
C10_Scenario250 ==
    Scenario250 =>
        /\ response.json.analysis.style.objectivity = <<"1", "0", "0", "%">>
        /\ response.json.analysis.style.style_type = "professional_journalistic"
        /\ AnalysisTerms.length = RInt(20)
        /\ AnalysisTerms.style = RInt(25)
        /\ AnalysisTerms.data = RInt(15)
        /\ AnalysisTerms.sources = RInt(10)
        /\ response.json.analysis.overall_score.rating \in GoodOrBetter

\* C10, amended: on the text of the scenario the objectivity is 100%, the
\* style type is professional journalistic, the length, data and sources
\* terms are 20, 15 and 10, the style term is min(25, 3 * journalist score),
\* which is at least 15 and is 25 only from 9 matched indicators on, and the
\* rating is "good" or better.
C10_Scenario250Amended ==
    Scenario250 =>
        /\ response.json.analysis.style.objectivity = <<"1", "0", "0", "%">>
        /\ response.json.analysis.style.style_type = "professional_journalistic"
        /\ AnalysisTerms.length = RInt(20)
        /\ AnalysisTerms.style = RInt(Min(25, 3 * response.json.analysis.style.journalist_score))
        /\ AnalysisTerms.style[1] >= 15 * AnalysisTerms.style[2]
        /\ (AnalysisTerms.style = RInt(25)) <=> (response.json.analysis.style.journalist_score >= 9)
        /\ AnalysisTerms.data = RInt(15)
        /\ AnalysisTerms.sources = RInt(10)
        /\ response.json.analysis.overall_score.rating \in GoodOrBetter

\* the scenario with fewer than 9 indicators: the style term is below 25
C10_Witness ==
    /\ Scenario250
    /\ response.json.analysis.style.journalist_score < 9
    /\ AnalysisTerms.style[1] < 25 * AnalysisTerms.style[2]

\* the rules 1..8 whose condition holds on the metrics of the answer
RuleConditions ==
    LET a == response.json.analysis
    IN  (IF a.basic.word_count < 100 THEN {1} ELSE {})
        \cup (IF a.basic.word_count > 600 THEN {2} ELSE {})
        \cup (IF a.style.journalist_score < 3 THEN {3} ELSE {})
        \cup (IF Objectivity < 80 THEN {4} ELSE {})
        \cup (IF ~a.style.uses_data THEN {5} ELSE {})
        \cup (IF ~a.content.mentions_sources THEN {6} ELSE {})
        \cup (IF a.basic.paragraph_count < 3 THEN {7} ELSE {})
        \cup (IF a.basic.avg_sentence_length > 250 THEN {8} ELSE {})

\* C13: the recommendation list of every analysis is non-empty; the rules
\* that contribute are exactly the rules whose condition holds; the info
\* entry "no major issues" is in the list if and only if no rule 1..8
\* fired, and it is then the only entry; rules 1 and 2 never both fire.
C13_FallbackIffNoRule ==
    Analyzed =>
        /\ Len(Recommendations) >= 1
        /\ FiredRules = RuleConditions
        /\ (0 \in Range(RuleIndices)) <=> (RuleConditions = {})
        /\ (0 \in Range(RuleIndices)) =>
              /\ RuleIndices = <<0>>
              /\ Recommendations[1].priority = "info"
        /\ ~({1, 2} \subseteq FiredRules)

\* a text on which no rule fires: the list is the info entry alone
C13_Witness ==
    /\ Analyzed
    /\ RuleConditions = {}
    /\ Len(Recommendations) = 1
    /\ Recommendations[1].issue = "no_major_issues"

\* the value of a fraction that is a whole number
Whole(x) == IF x[1] % x[2] = 0 THEN x[1] \div x[2] ELSE -1

\* C17: in every analysis paragraph_count >= 3 holds exactly when
\* well_structured holds, so the structure term of the score is 0 or 10 and
\* never 5, and rule 7 fires exactly when well_structured is false; has_dates
\* implies uses_data, so the data term is 0, 10 or 15 and never 5.
C17_StructureAndDataTerms ==
    Analyzed =>
        LET a == response.json.analysis
        IN  /\ (a.basic.paragraph_count >= 3) <=> a.style.well_structured
            /\ Whole(AnalysisTerms.structure) \in {0, 10}
            /\ (7 \in FiredRules) <=> ~a.style.well_structured
            /\ a.style.has_dates => a.style.uses_data
            /\ Whole(AnalysisTerms.data) \in {0, 10, 15}

\* a text of exactly three paragraphs that holds a year: both terms are full
C17_Witness ==
    /\ Analyzed
    /\ Basic.paragraph_count = 3
    /\ response.json.analysis.style.well_structured
    /\ response.json.analysis.style.has_dates
    /\ Whole(AnalysisTerms.structure) = 10
    /\ Whole(AnalysisTerms.data) = 15

\* the sum of the seven terms of the score, before rounding and capping
UncappedSum ==
    LET t == AnalysisTerms
    IN  RAdd(RAdd(RAdd(RAdd(RAdd(RAdd(t.length, t.style), t.objectivity),
                t.data), t.sources), t.structure), t.diversity)

\* C18: in every analysis the uncapped sum of the seven score terms lies
\* between 17.5 and 100 inclusive and the objectivity is never below 50, so
\* that neither the cap of the score nor the clamp of the objectivity
\* changes a value; no text scores below 17.5.
C18_SumAndObjectivityBounds ==
    Analyzed =>
        /\ 2 * UncappedSum[1] >= 35 * UncappedSum[2]
        /\ UncappedSum[1] <= 100 * UncappedSum[2]
        /\ Objectivity >= 50
        /\ Objectivity = 100 - 10 * LexiconHits(personal_pronouns, ReqScript)
        /\ IsRounded1(UncappedSum, Score)
        /\ Score >= 175

\* a text of nothing but the five personal pronouns: the objectivity is at
\* its lowest, 50, and the score is 10 + 7.5 + 5
C18_Witness ==
    /\ Analyzed
    /\ LexiconHits(personal_pronouns, ReqScript) = 5
    /\ Objectivity = 50
    /\ Basic.word_count = 5
    /\ Score = 225

\* the text of the key landmarks section, and the places in it where the
\* line of a landmark begins; the name of the landmark follows the bullet
KeyLandmarksContent ==
    LET i == CHOOSE i \in 1..Len(Sections) : Kinds[i] = 7
    IN  Sections[i].content
Bullets == {i \in 1..Len(KeyLandmarksContent) : KeyLandmarksContent[i] = "@ "}
KeyLandmarkNames ==
    {ReqLandmark.key_landmarks[i].name : i \in 1..Len(ReqLandmark.key_landmarks)}

\* C15: a script of 90 seconds or more on a landmark with n >= 1 key
\* landmarks has a key landmarks section that lists exactly
\* min(n, max(2, floor(d / 60))) of them, each a key landmark of the record
\* and no two the same, whatever the random selection.
C15_KeyLandmarkCount ==
    (Generated /\ ReqDuration >= 90 /\ NonEmptyList(ReqLandmark, "key_landmarks")) =>
        /\ 7 \in Range(Kinds)
        /\ Cardinality(Bullets) =
              Min(Len(ReqLandmark.key_landmarks), Max(2, ReqDuration \div 60))
        /\ \A i \in Bullets : KeyLandmarksContent[i + 1] \in KeyLandmarkNames
        /\ \A i, j \in Bullets :
              i # j => KeyLandmarksContent[i + 1] # KeyLandmarksContent[j + 1]

\* two of the three key landmarks of a record are listed, the first of the
\* record not among them
C15_Witness ==
    /\ Generated
    /\ ReqLandmarkId = "hegra"
    /\ ReqDuration = 120
    /\ 7 \in Range(Kinds)
    /\ Cardinality(Bullets) = 2
    /\ \A i \in Bullets : KeyLandmarksContent[i + 1] # hegra.key_landmarks[1].name

\* the entries of most_common_words in the answer
MostCommonWords == response.json.analysis.content.most_common_words

\* a token without its trailing punctuation
RECURSIVE StripTrailing(_)
StripTrailing(w) ==
    IF w # <<>> /\ w[Len(w)] \in StripChars
    THEN StripTrailing(SubSeq(w, 1, Len(w) - 1)) ELSE w

\* the tokens of the text, in runs of copies, and the runs that qualify:
\* longer than 3 characters once the trailing punctuation is stripped
Tokens == StrSplit(ReqScript)
Qualifying == {j \in 1..Len(Tokens) : Len(StripTrailing(Tokens[j].w)) > 3}

\* the distinct qualifying tokens: a run of n copies is one token, or n
\* tokens when it holds the per-copy letter
QualifyingTokens ==
    {[w |-> StripTrailing(Tokens[j].w), i |-> 0] :
        j \in {q \in Qualifying : ~IsPerCopy(Tokens[q].w)}}
    \cup UNION {{[w |-> StripTrailing(Tokens[j].w), i |-> k] : k \in 1..Tokens[j].n} :
                  j \in {q \in Qualifying : IsPerCopy(Tokens[q].w)}}

\* how often a qualifying token occurs, and the run of its first occurrence
Frequency(key) ==
    IF key.i > 0 THEN 1
    ELSE SumSeq([j \in 1..Len(Tokens) |->
                    IF j \in Qualifying /\ StripTrailing(Tokens[j].w) = key.w
                    THEN Tokens[j].n ELSE 0])
FirstRun(key) ==
    CHOOSE j \in Qualifying :
        /\ StripTrailing(Tokens[j].w) = key.w
        /\ \A q \in Qualifying : StripTrailing(Tokens[q].w) = key.w => j <= q

\* C14 as the specification states it: most_common_words lists the 10 most
\* frequent tokens, all of them when fewer than 10 distinct tokens qualify,
\* in descending frequency with ties in first-occurrence order, and only
\* tokens longer than 3 characters after stripping trailing punctuation are
\* counted.
C14_TopTenMostCommon ==
    Analyzed =>
        /\ Len(MostCommonWords) = Min(10, Cardinality(QualifyingTokens))
        /\ \A i \in 1..Len(MostCommonWords) :
              /\ MostCommonWords[i].word \in QualifyingTokens
              /\ MostCommonWords[i].count = Frequency(MostCommonWords[i].word)
        /\ \A i, j \in 1..Len(MostCommonWords) :
              i < j =>
                 LET a == MostCommonWords[i]
                     b == MostCommonWords[j]
                 IN  \/ a.count > b.count
                     \/ /\ a.count = b.count
                        /\ \/ FirstRun(a.word) < FirstRun(b.word)
                           \/ FirstRun(a.word) = FirstRun(b.word) /\ a.word.i < b.word.i
        /\ \A key \in QualifyingTokens :
              \A i \in 1..Len(MostCommonWords) :
                 Frequency(key) > MostCommonWords[i].count =>
                    \E j \in 1..i : MostCommonWords[j].word = key

\* the first of two scripts of one landmark: its duration and the section
\* types it held
FirstDuration == Item(answered[1].request.json, "duration").num
FirstKinds == {KindOf(answered[1].titles[i]) : i \in 1..Len(answered[1].titles)}
SecondOfTwo ==
    /\ Generated
    /\ answered # <<>>
    /\ Item(answered[1].request.json, "city").text = ReqCity
    /\ Item(answered[1].request.json, "landmark").text = ReqLandmarkId
    /\ FirstDuration <= ReqDuration

\* C16: of two scripts generated for the same landmark record, the one of
\* the longer (or equal) duration holds every section type that the other
\* holds, whatever the random choices of the two generations.
C16_SectionsGrowWithDuration ==
    SecondOfTwo => FirstKinds \subseteq Range(Kinds)

\* a script of 120 seconds with a story section and a script of 200 seconds
\* of the same landmark that holds all eleven section types
C16_Witness ==
    /\ SecondOfTwo
    /\ FirstDuration = 120
    /\ ReqDuration = 200
    /\ 6 \in FirstKinds
    /\ 8 \notin FirstKinds
    /\ Range(Kinds) = 1..11

\* the recorded requests that asked for the analysis of the text of the
\* request at hand
SameTextBefore ==
    {i \in 1..Len(answered) :
        /\ answered[i].request.route = "/api/analyze"
        /\ request.route = "/api/analyze"
        /\ answered[i].request.json = request.json}

C12_WitnessOtherText ==
    /\ Analyzed
    /\ Len(answered) = 2
    /\ SameTextBefore = {1}
    /\ answered[2].request.route = "/api/analyze"
    /\ answered[2].analysis # response.json.analysis


\* C11: the analysis that generate() returns for the full text agrees with
\* the analysis that analyze() makes of that text on word_count,
\* sentence_count, paragraph_count and avg_sentence_length, and it also
\* carries the style profile, the content profile, the recommendations and
\* the overall score.
AnalyzerMetrics(full_text) == _basic_analysis(AdvancedScriptAnalyzer(TextOf(full_text)))

MetricsAgree ==
    Generated =>
        LET mine == response.json.script.analysis
            theirs == AnalyzerMetrics(response.json.script.full_text)
        IN  \A k \in {"word_count", "sentence_count", "paragraph_count",
                      "avg_sentence_length"} : mine[k] = theirs[k]

C11_GenerateAnalysisIsPipeline ==
    /\ MetricsAgree
    /\ Generated =>
          {"style", "content", "recommendations", "overall_score"}
              \subseteq DOMAIN response.json.script.analysis

====
